---------------------------- MODULE Spec2Model ----------------------------
(***************************************************************************)
(* State-machine model of the IPC gateway actor's cron voting engine:      *)
(* SubmitCron (gateway/src/lib.rs submit_cron, validate_submitter,         *)
(* handle_cron_submission, execute_next_cron_epoch, apply_msg_inner), the  *)
(* per-epoch tally (gateway/src/cron.rs CronSubmission) and SetMembership. *)
(*                                                                         *)
(* Every public operation is one atomic transaction of the host: when any  *)
(* step of it returns an error (or panics) the whole operation aborts and  *)
(* none of its state changes persist.  An operation is modelled as an      *)
(* operator from the state and the call's inputs to the call's result      *)
(* (error, new state, what it emitted); the action installs the new state. *)
(***************************************************************************)
EXTENDS Integers, Sequences, FiniteSets, TLC

(***************************************************************************)
(* Bounds of the model.                                                    *)
(***************************************************************************)
\* number of addresses that may call the actor
NumAddrs == 2
MaxHeld == 2         \* messages held in the queues, the postbox and the checkpoints
MaxOwners == 2       \* owners of a postbox entry
MaxApplied == 1      \* cross-messages applied in each direction
MaxDepth == 3        \* depth of the tree of subnets a message is classified in
MaxStakeGap == 2     \* how far from min_stake the stake of a subnet may move
MaxCommits == 2      \* child checkpoints held by the window checkpoints
\* cron epochs genesis_epoch + k * cron_period, k in 1..MaxCronEpochs, can be voted
MaxCronEpochs == 3
\* addresses of the single-round exploration
NumRoundAddrs == 4
\* largest total weight the execution status is tabulated for
MaxTotalWeight == 9

(***************************************************************************)
(* Constructor parameters (State::new).                                    *)
(***************************************************************************)
genesis_epoch == 1
cron_period == 2

RATIO_NUMERATOR == 2
RATIO_DENOMINATOR == 3
\* u16::MAX, the width of the tally's counters
U16_MAX == 65535
\* u64::MAX, the initial applied_bottomup_nonce.  u64 values are written as
\* the integer with the same 64 bits in two's complement, so u64::MAX is -1
\* and wrapping_add(x, 1) is x + 1 for every value met here
MAX_NONCE == -1
\* the fee of a cross-message; token amounts are counted in nanoFIL
CROSS_MSG_FEE == 100
\* State::min_stake, the collateral of a subnet (1 FIL)
min_stake == 1000000000
\* State::check_period
check_period == 10
\* the raw address of the actor that burns funds
BURNT_FUNDS_ACTOR_ADDR == 99

\* no call of derive_execution_status on record
NoCalc == [T |-> 0, S |-> 0, M |-> 0, status |-> "None"]

\* Option: None, Some(x)
None == << >>
Some(x) == <<x>>
IsSome(o) == o # None
Unwrap(o) == o[1]

Addrs == 1..NumAddrs
\* the cron epochs that can be voted
CronEpochs == { genesis_epoch + k * cron_period : k \in 1..MaxCronEpochs }
\* epochs a caller may name in a checkpoint: the cron epochs, the genesis epoch
\* and two epochs that are no multiple of the period
Epochs == CronEpochs \cup {genesis_epoch - 1, genesis_epoch, genesis_epoch + 1}

(***************************************************************************)
(* Top-down messages carried by cron checkpoints.  They come from the      *)
(* parent and are addressed to the current subnet, so apply_type is        *)
(* TopDown and  sto == st.network_name;  value is zero.  A message is      *)
(* identified here by its nonce.                                           *)
(***************************************************************************)
TopDownMsgLists == {<<>>, <<0, 1>>, <<1, 0>>, <<0, 0>>}

\* the validator sets SetMembership may install: address -> weight
ValidatorSets == { [a \in 1..n |-> 1] : n \in 1..NumAddrs }

\* a single voting round is explored with more validators, unequal weights and
\* more checkpoints
RoundAddrs == 1..NumRoundAddrs
\* the round is the one on the first cron epoch
RoundEpochs == { genesis_epoch + cron_period }
RoundMsgLists == {<<>>, <<0>>, <<0, 1>>, <<1, 0>>}
RoundValidatorSets ==
    { [a \in 1..n |-> 1] : n \in 1..NumRoundAddrs }
        \cup { [a \in 1..n |-> IF a = 1 THEN 2 ELSE 1] : n \in 2..NumRoundAddrs }

\* Validators::total_weight -- the cached sum of the weights
RECURSIVE SumWeights(_, _)
SumWeights(f, S) ==
    IF S = {} THEN 0
    ELSE LET x == CHOOSE y \in S : TRUE IN f[x] + SumWeights(f, S \ {x})

total_weight(vs) == SumWeights(vs, DOMAIN vs)

\* Validators::get_validator_weight -- Option<weight>
get_validator_weight(vs, addr) ==
    IF addr \in DOMAIN vs THEN Some(vs[addr]) ELSE None

(***************************************************************************)
(* gateway/src/state.rs -- the part of State the cron engine uses, and the *)
(* build the actor was compiled with.                                      *)
(***************************************************************************)
VARIABLES
    validators,                 \* State::validators, address -> weight
    last_cron_executed_epoch,   \* State::last_cron_executed_epoch
    executable_epoch_queue,     \* State::executable_epoch_queue, None or Some(set)
    cron_submissions,           \* State::cron_submissions, epoch -> CronSubmission
    applied_topdown_nonce,      \* State::applied_topdown_nonce
    applied_bottomup_nonce,     \* State::applied_bottomup_nonce
    subnets,                    \* State::subnets, SubnetID -> Subnet
    total_subnets,              \* State::total_subnets
    postbox,                    \* State::postbox, Cid -> PostBoxItem
    nonce,                      \* State::nonce, of the bottom-up messages sent
    checkpoints,                \* State::checkpoints, epoch -> cross-messages
    children,                   \* Checkpoint::data.children of State::checkpoints
    bottomup_nonce,             \* State::bottomup_nonce
    bottomup_msg_meta,          \* State::bottomup_msg_meta, nonce -> CrossMsgMeta
    overflow_checks,            \* TRUE: integer overflow panics; FALSE: it wraps
    calc                        \* a call of derive_execution_status: inputs, result

vars == <<validators, last_cron_executed_epoch, executable_epoch_queue,
          cron_submissions, applied_topdown_nonce, applied_bottomup_nonce,
          subnets, total_subnets, postbox, nonce, checkpoints, children,
          bottomup_nonce, bottomup_msg_meta, overflow_checks, calc>>

(***************************************************************************)
(* gateway/src/cron.rs -- CronCheckpoint and CronSubmission.               *)
(* The tally is weighted: lib.rs hands the submitter's weight to submit    *)
(* and the validators' total weight to derive_execution_status, so a vote  *)
(* adds the submitter's weight where a unit-weight vote adds 1.            *)
(***************************************************************************)
CronCheckpoint(epoch, msgs) == [epoch |-> epoch, top_down_msgs |-> msgs]

\* first index i (1-based position of the second element of the pair) at which
\* the nonces are not strictly ascending, 0 when there is none
FirstUnordered(msgs) ==
    LET bad == { i \in 2..Len(msgs) : ~(msgs[i - 1] < msgs[i]) }
    IN IF bad = {} THEN 0 ELSE CHOOSE i \in bad : \A j \in bad : i <= j

\* a faulty hash that does not look at the nonces
hash_unchecked(ck) ==
    [err |-> "ok", hash |-> Some(<<"blake2b", ck.epoch, ck.top_down_msgs>>)]

\* CronCheckpoint::hash -- checks the nonces, then digests the serialized
\* checkpoint; the digest is modelled as the (injective) tagged encoding
hash(ck) ==
    LET i == FirstUnordered(ck.top_down_msgs)
    IN IF i = 0
       THEN [err |-> "ok", hash |-> Some(<<"blake2b", ck.epoch, ck.top_down_msgs>>)]
       ELSE IF ck.top_down_msgs[i - 1] = ck.top_down_msgs[i]
            THEN [err |-> "top down messages not distinct", hash |-> None]
            ELSE [err |-> "top down messages not sorted", hash |-> None]

\* CronSubmission::new
NewCronSubmission ==
    [total_submissions |-> 0,
     most_voted_hash   |-> None,
     submitters        |-> {},
     submission_counts |-> << >>,
     submissions       |-> << >>]

\* a faulty abort that keeps the submitters
abort_keeping_submitters(sub) ==
    [sub EXCEPT !.total_submissions = 0,
                !.most_voted_hash = None,
                !.submission_counts = << >>]

\* CronSubmission::abort
abort(sub) ==
    [sub EXCEPT !.total_submissions = 0,
                !.submitters = {},
                !.most_voted_hash = None,
                !.submission_counts = << >>]

\* a faulty leader test that replaces the leader on a tie
LeaderBeatenOnTie(new_count, most_submitted_count) ==
    new_count >= most_submitted_count

\* the leader test of update_submission_count (cron.rs:337)
LeaderBeaten(new_count, most_submitted_count) == new_count > most_submitted_count

\* a faulty update_submitters that lets a submitter vote twice
update_submitters_unchecked(sub, submitter, weight) ==
    [err |-> "ok",
     sub |-> [sub EXCEPT !.submitters = @ \cup {submitter},
                         !.total_submissions = @ + weight]]

\* CronSubmission::update_submitters
update_submitters(sub, submitter, weight) ==
    IF submitter \in sub.submitters
    THEN [err |-> "already submitted", sub |-> sub]
    ELSE [err |-> "ok",
          sub |-> [sub EXCEPT !.submitters = @ \cup {submitter},
                              !.total_submissions = @ + weight]]

\* CronSubmission::insert_checkpoint
insert_checkpoint(sub, ck) ==
    LET h == hash(ck)
    IN IF h.err # "ok" THEN [err |-> h.err, sub |-> sub, hash |-> None]
       ELSE IF Unwrap(h.hash) \in DOMAIN sub.submissions
            THEN [err |-> "ok", sub |-> sub, hash |-> h.hash]
            ELSE [err |-> "ok",
                  sub |-> [sub EXCEPT !.submissions = (Unwrap(h.hash) :> ck) @@ @],
                  hash |-> h.hash]

\* a faulty update_submission_count that overwrites the count of the hash
update_submission_count_overwrite(sub, h, weight) ==
    LET counts2 == (h :> weight) @@ sub.submission_counts
        sub2    == [sub EXCEPT !.submission_counts = counts2]
    IN IF sub.most_voted_hash = None
       THEN [sub |-> [sub2 EXCEPT !.most_voted_hash = Some(h)], most |-> weight]
       ELSE IF weight > counts2[Unwrap(sub.most_voted_hash)]
            THEN [sub |-> [sub2 EXCEPT !.most_voted_hash = Some(h)], most |-> weight]
            ELSE [sub |-> sub2, most |-> counts2[Unwrap(sub.most_voted_hash)]]

\* CronSubmission::update_submission_count -- returns the count of the most voted
update_submission_count(sub, h, weight) ==
    LET counts    == sub.submission_counts
        new_count == IF h \in DOMAIN counts THEN counts[h] + weight ELSE weight
        counts2   == (h :> new_count) @@ counts
        sub2      == [sub EXCEPT !.submission_counts = counts2]
    IN IF sub.most_voted_hash = None
       THEN [sub |-> [sub2 EXCEPT !.most_voted_hash = Some(h)], most |-> new_count]
       ELSE IF Unwrap(sub.most_voted_hash) = h
            THEN [sub |-> sub2, most |-> new_count]
            ELSE LET most_submitted_count == counts2[Unwrap(sub.most_voted_hash)]
                 IN IF LeaderBeaten(new_count, most_submitted_count)
                    THEN [sub |-> [sub2 EXCEPT !.most_voted_hash = Some(h)],
                          most |-> new_count]
                    ELSE [sub |-> sub2, most |-> most_submitted_count]

\* CronSubmission::submit -- on a hash error the record (a scratch copy of the
\* persisted one) has already been marked by update_submitters
submit(sub, submitter, weight, ck) ==
    LET u == update_submitters(sub, submitter, weight)
    IN IF u.err # "ok" THEN [err |-> u.err, sub |-> sub, most |-> 0]
       ELSE LET i == insert_checkpoint(u.sub, ck)
            IN IF i.err # "ok" THEN [err |-> i.err, sub |-> u.sub, most |-> 0]
               ELSE LET c == update_submission_count(i.sub, Unwrap(i.hash), weight)
                    IN [err |-> "ok", sub |-> c.sub, most |-> c.most]

\* a faulty load that returns some stored checkpoint, not the most voted one
load_any_checkpoint(sub) ==
    IF sub.most_voted_hash = None \/ DOMAIN sub.submissions = {} THEN None
    ELSE Some(sub.submissions[CHOOSE h \in DOMAIN sub.submissions :
                                 \A g \in DOMAIN sub.submissions :
                                     Len(g[3]) >= Len(h[3])])

\* CronSubmission::load_most_submitted_checkpoint -- Option<CronCheckpoint>
load_most_submitted_checkpoint(sub) ==
    IF sub.most_voted_hash = None THEN None
    ELSE IF Unwrap(sub.most_voted_hash) \in DOMAIN sub.submissions
         THEN Some(sub.submissions[Unwrap(sub.most_voted_hash)])
         ELSE None

\* u16 arithmetic: a result outside 0..U16_MAX panics when the build checks
\* overflow and wraps otherwise.  [ok |-> FALSE] stands for the panic.
U16(x) ==
    IF 0 <= x /\ x <= U16_MAX THEN [ok |-> TRUE, val |-> x]
    ELSE IF overflow_checks THEN [ok |-> FALSE, val |-> 0]
    ELSE [ok |-> TRUE, val |-> x % (U16_MAX + 1)]

\* the consensus test of derive_execution_status (cron.rs:220)
ConsensusTest(most_voted_count, threshold) == most_voted_count > threshold

\* a faulty early-termination test: strict where the code is not
AbortTestStrict(missing, remaining) == missing > remaining

\* the early-termination test of derive_execution_status (cron.rs:238)
AbortTest(missing, remaining) == missing >= remaining

\* CronSubmission::derive_execution_status, on the total_submissions of the record
ExecutionStatus(total_submissions, total_validators, most_voted_count) ==
    LET product == U16(total_validators * RATIO_NUMERATOR)
        threshold == product.val \div RATIO_DENOMINATOR
        missing == U16(threshold - most_voted_count)
        remaining == U16(total_validators - total_submissions)
    IN IF ~product.ok THEN "panic"
       ELSE IF total_submissions <= threshold THEN "ThresholdNotReached"
       ELSE IF ConsensusTest(most_voted_count, threshold) THEN "ConsensusReached"
       ELSE IF ~missing.ok \/ ~remaining.ok THEN "panic"
       ELSE IF AbortTest(missing.val, remaining.val)
            THEN "RoundAbort"
            ELSE "ReachingConsensus"

derive_execution_status(sub, total_validators, most_voted_count) ==
    ExecutionStatus(sub.total_submissions, total_validators, most_voted_count)

\* the persistent state as one value
State ==
    [validators               |-> validators,
     last_cron_executed_epoch |-> last_cron_executed_epoch,
     executable_epoch_queue   |-> executable_epoch_queue,
     cron_submissions         |-> cron_submissions,
     applied_topdown_nonce    |-> applied_topdown_nonce,
     applied_bottomup_nonce   |-> applied_bottomup_nonce,
     subnets                  |-> subnets,
     total_subnets            |-> total_subnets,
     postbox                  |-> postbox,
     nonce                    |-> nonce,
     checkpoints              |-> checkpoints,
     children                 |-> children,
     bottomup_nonce           |-> bottomup_nonce,
     bottomup_msg_meta        |-> bottomup_msg_meta]

\* State::new
NewState ==
    [validators               |-> << >>,
     last_cron_executed_epoch |-> genesis_epoch,
     executable_epoch_queue   |-> None,
     cron_submissions         |-> << >>,
     applied_topdown_nonce    |-> 0,
     applied_bottomup_nonce   |-> MAX_NONCE,
     subnets                  |-> << >>,
     total_subnets            |-> 0,
     postbox                  |-> << >>,
     nonce                    |-> 0,
     checkpoints              |-> << >>,
     children                 |-> << >>,
     bottomup_nonce           |-> 0,
     bottomup_msg_meta        |-> << >>]

\* BTreeSet::first
First(queue) == CHOOSE e \in queue : \A f \in queue : e <= f

\* State::insert_executable_epoch
insert_executable_epoch(st, epoch) ==
    IF st.executable_epoch_queue = None
    THEN [st EXCEPT !.executable_epoch_queue = Some({epoch})]
    ELSE [st EXCEPT !.executable_epoch_queue = Some(Unwrap(@) \cup {epoch})]

\* State::set_membership
set_membership(st, validator_set) == [st EXCEPT !.validators = validator_set]

\* Hamt::delete on a map modelled as a function
MapDelete(m, k) == [x \in (DOMAIN m) \ {k} |-> m[x]]

(***************************************************************************)
(* gateway/src/lib.rs                                                      *)
(***************************************************************************)
\* Actor::apply_msg_inner, top-down branch, for a message to this subnet
apply_msg_inner(st, msg_nonce) ==
    IF st.applied_topdown_nonce # msg_nonce
    THEN [err |-> "the top-down message being applied doesn't hold the subsequent nonce",
          st |-> st]
    ELSE [err |-> "ok", st |-> [st EXCEPT !.applied_topdown_nonce = @ + 1]]

\* the loop  for m in msgs { apply_msg_inner(rt, m)? }  -- stops at the first error;
\* sent lists the messages handed to send
RECURSIVE ApplyMsgs(_, _, _)
ApplyMsgs(st, msgs, sent) ==
    IF msgs = << >> THEN [err |-> "ok", st |-> st, sent |-> sent]
    ELSE LET r == apply_msg_inner(st, Head(msgs))
         IN IF r.err # "ok" THEN [err |-> r.err, st |-> st, sent |-> sent]
            ELSE ApplyMsgs(r.st, Tail(msgs), Append(sent, Head(msgs)))

\* a faulty validate_submitter that accepts the last executed epoch again
validate_submitter_lax(st, epoch, submitter) ==
    IF (epoch - genesis_epoch) % cron_period # 0
    THEN [err |-> "epoch not allowed", weight |-> None]
    ELSE IF st.last_cron_executed_epoch > epoch
         THEN [err |-> "epoch already executed", weight |-> None]
         ELSE IF get_validator_weight(st.validators, submitter) = None
              THEN [err |-> "caller not validator", weight |-> None]
              ELSE [err |-> "ok",
                    weight |-> get_validator_weight(st.validators, submitter)]

\* Actor::validate_submitter
validate_submitter(st, epoch, submitter) ==
    IF (epoch - genesis_epoch) % cron_period # 0
    THEN [err |-> "epoch not allowed", weight |-> None]
    ELSE IF st.last_cron_executed_epoch >= epoch
         THEN [err |-> "epoch already executed", weight |-> None]
         ELSE IF get_validator_weight(st.validators, submitter) = None
              THEN [err |-> "caller not validator", weight |-> None]
              ELSE [err |-> "ok",
                    weight |-> get_validator_weight(st.validators, submitter)]

\* a faulty order test that lets any later epoch through
NotNextEpochLax(st, epoch) == st.last_cron_executed_epoch + cron_period > epoch

\* the order test of handle_cron_submission (lib.rs:1003)
NotNextEpoch(st, epoch) == st.last_cron_executed_epoch + cron_period # epoch

\* Actor::handle_cron_submission.  In the ConsensusReached branch for an epoch
\* that is not the next one the function returns before the flush of the
\* submissions map (st.cron_submissions = TCid::from(hamt.flush()?)), so the
\* hamt.set of that branch never reaches the state.
handle_cron_submission(st, ck, submitter, submitter_weight) ==
    LET total        == total_weight(st.validators)
        params_epoch == ck.epoch
        hamt         == st.cron_submissions
        submission   == IF params_epoch \in DOMAIN hamt THEN hamt[params_epoch]
                        ELSE NewCronSubmission
        execute(most_submitted) ==
            IF most_submitted = None
            THEN [err |-> "panic", st |-> st, msgs |-> None,
                  status |-> "ConsensusReached"]
            ELSE [err |-> "ok",
                  st |-> [st EXCEPT !.last_cron_executed_epoch = params_epoch,
                                    !.cron_submissions =
                                        MapDelete(hamt, params_epoch)],
                  msgs |-> Some(Unwrap(most_submitted).top_down_msgs),
                  status |-> "ConsensusReached"]
        decide(voted, status) ==
            CASE status \in {"ThresholdNotReached", "ReachingConsensus"} ->
                    [err |-> "ok",
                     st |-> [st EXCEPT !.cron_submissions =
                                           (params_epoch :> voted) @@ hamt],
                     msgs |-> None, status |-> status]
              [] status = "RoundAbort" ->
                    [err |-> "ok",
                     st |-> [st EXCEPT !.cron_submissions =
                                           (params_epoch :> abort(voted)) @@ hamt],
                     msgs |-> None, status |-> status]
              [] status = "panic" ->
                    [err |-> "panic", st |-> st, msgs |-> None, status |-> status]
              [] status = "ConsensusReached" ->
                    IF NotNextEpoch(st, params_epoch)
                    THEN [err |-> "ok",
                          st |-> insert_executable_epoch(st, params_epoch),
                          msgs |-> None, status |-> status]
                    ELSE execute(load_most_submitted_checkpoint(voted))
        submitted(r) ==
            IF r.err # "ok"
            THEN [err |-> r.err, st |-> st, msgs |-> None, status |-> "None"]
            ELSE decide(r.sub, derive_execution_status(r.sub, total, r.most))
    IN submitted(submit(submission, submitter, submitter_weight, ck))

\* a faulty pop that leaves an empty queue in place
QueueAfterPopKeep(rest) == Some(rest)

\* the queue after pop_first (lib.rs:1060-1064): None when nothing is left
QueueAfterPop(rest) == IF rest = {} THEN None ELSE Some(rest)

\* a faulty guard that never defers the head of the queue
TooEarlyNever(st, epoch) == FALSE

\* the guard of execute_next_cron_epoch (lib.rs:1052)
TooEarly(st, epoch) == epoch > st.last_cron_executed_epoch + cron_period

\* Actor::execute_next_cron_epoch, the transaction: pops at most one epoch.
\* epoch is the epoch executed, None when nothing was executed.
pop_next_cron_epoch(st) ==
    IF st.executable_epoch_queue = None
    THEN [err |-> "ok", st |-> st, msgs |-> None, epoch |-> None]
    ELSE IF Unwrap(st.executable_epoch_queue) = {}
    THEN [err |-> "panic", st |-> st, msgs |-> None, epoch |-> None]
    ELSE LET epoch == First(Unwrap(st.executable_epoch_queue))
             rest  == Unwrap(st.executable_epoch_queue) \ {epoch}
         IN IF TooEarly(st, epoch)
            THEN [err |-> "ok", st |-> st, msgs |-> None, epoch |-> None]
            ELSE IF epoch \notin DOMAIN st.cron_submissions
                 THEN [err |-> "panic", st |-> st, msgs |-> None, epoch |-> None]
                 ELSE IF load_most_submitted_checkpoint(st.cron_submissions[epoch]) = None
                      THEN [err |-> "panic", st |-> st, msgs |-> None, epoch |-> None]
                      ELSE [err |-> "ok",
                            st |-> [st EXCEPT
                                      !.executable_epoch_queue = QueueAfterPop(rest),
                                      !.last_cron_executed_epoch = epoch,
                                      !.cron_submissions = MapDelete(@, epoch)],
                            msgs |-> Some(Unwrap(load_most_submitted_checkpoint(
                                         st.cron_submissions[epoch])).top_down_msgs),
                            epoch |-> Some(epoch)]

\* Actor::execute_next_cron_epoch: the transaction, then the dispatch of the messages
execute_next_cron_epoch(st) ==
    LET applied(t, a) ==
            IF a.err # "ok"
            THEN [err |-> a.err, st |-> st, epoch |-> None, sent |-> << >>]
            ELSE [err |-> "ok", st |-> a.st, epoch |-> t.epoch, sent |-> a.sent]
        popped(t) ==
            IF t.err # "ok" \/ t.msgs = None
            THEN [err |-> t.err, st |-> st, epoch |-> None, sent |-> << >>]
            ELSE applied(t, ApplyMsgs(t.st, Unwrap(t.msgs), << >>))
    IN popped(pop_next_cron_epoch(st))

\* what a failed call leaves: the state it started from and nothing emitted
Failed(err, st) ==
    [err |-> err, st |-> st, status |-> "None",
     executed |-> << >>, sent |-> << >>]

\* Actor::submit_cron.  executed lists the epochs whose checkpoint the call
\* executed, sent the messages it dispatched, both in order.
submit_cron(st, caller, checkpoint) ==
    LET applied(t, h, a) ==
            IF a.err # "ok" THEN Failed(a.err, st)
            ELSE [err |-> "ok", st |-> a.st,
                  status |-> h.status,
                  executed |-> (IF t.epoch = None THEN << >>
                                ELSE <<Unwrap(t.epoch)>>)
                               \o (IF h.msgs = None THEN << >>
                                   ELSE <<checkpoint.epoch>>),
                  sent |-> a.sent]
        handled(t, h) ==
            IF h.err # "ok" THEN Failed(h.err, st)
            ELSE applied(t, h,
                         ApplyMsgs(h.st,
                                   IF h.msgs = None THEN << >> ELSE Unwrap(h.msgs),
                                   t.sent))
        validated(t, v) ==
            IF v.err # "ok" THEN Failed(v.err, st)
            ELSE handled(t, handle_cron_submission(t.st, checkpoint, caller,
                                                   Unwrap(v.weight)))
        triggered(t) ==
            IF t.err # "ok" THEN Failed(t.err, st)
            ELSE validated(t, validate_submitter(t.st, checkpoint.epoch, caller))
    IN triggered(execute_next_cron_epoch(st))

(***************************************************************************)
(* Subnet ids, addresses and cross-messages.                               *)
(***************************************************************************)
\* SubnetID: the path of subnet-actor addresses below the root, /root = << >>
ROOTNET_ID == << >>

\* State::network_name: the gateway modelled is the one of subnet /root/1
network_name == <<1>>

\* the subnets of the tree: the root, this subnet, a sibling, two children
\* and a grandchild
SubnetIDs == { << >>, <<1>>, <<2>>, <<1, 1>>, <<1, 2>>, <<1, 1, 1>> }

\* SubnetID::new_from_parent
new_from_parent(parent, subnet_act) == Append(parent, subnet_act)

\* SubnetID::parent
parent(id) == IF id = << >> THEN None ELSE Some(SubSeq(id, 1, Len(id) - 1))

\* the length of the longest shared prefix of two paths
CommonLen(a, b) ==
    CHOOSE n \in 0..Len(a) :
        /\ n <= Len(b)
        /\ SubSeq(a, 1, n) = SubSeq(b, 1, n)
        /\ \A k \in (n + 1)..Len(a) :
              k <= Len(b) => SubSeq(a, 1, k) # SubSeq(b, 1, k)

\* SubnetID::common_parent -- the longest shared prefix
common_parent(a, b) == SubSeq(a, 1, CommonLen(a, b))

\* SubnetID::down -- the next subnet on the way from curr down to id
down(id, curr) ==
    IF Len(id) <= Len(curr) THEN None
    ELSE Some(SubSeq(id, 1, CommonLen(id, curr) + 1))

\* IPCAddress::new
IPCAddress(sn, addr) == [subnet_id |-> sn, raw_address |-> addr]

\* StorableMsg (method and params are opaque and left out)
StorableMsg(from, to, value, msg_nonce) ==
    [from |-> from, to |-> to, value |-> value, nonce |-> msg_nonce]

\* a faulty test that also takes a sender that is the common parent
is_bottomup_or_level(from, to) == Len(from) >= Len(common_parent(from, to))

\* is_bottomup: from lies strictly below the common parent of from and to
is_bottomup(from, to) == Len(from) > Len(common_parent(from, to))

\* StorableMsg::hc_type
hc_type(msg) ==
    IF is_bottomup(msg.from.subnet_id, msg.to.subnet_id) THEN "BottomUp"
    ELSE "TopDown"

\* StorableMsg::apply_type
apply_type(msg, curr) ==
    IF /\ common_parent(curr, msg.to.subnet_id)
             = common_parent(msg.from.subnet_id, msg.to.subnet_id)
       /\ hc_type(msg) = "BottomUp"
    THEN "BottomUp"
    ELSE "TopDown"

\* u64::wrapping_add, on the two's complement reading of MAX_NONCE
wrapping_add(x, y) == x + y

\* PostBoxItem::new
PostBoxItem(cross_msg, owners) == [cross_msg |-> cross_msg, owners |-> owners]

\* PostBoxItem::serialize_with_cid -- the content id of the item
Cid(item) == <<"cid", item>>

(***************************************************************************)
(* gateway/src/state.rs: cross-messages                                    *)
(***************************************************************************)
\* a faulty transition that takes every nonce and jumps to it
bottomup_state_transition_jumping(st, msg) ==
    [err |-> "ok", st |-> [st EXCEPT !.applied_bottomup_nonce = msg.nonce]]

\* a faulty transition that only takes the next nonce
bottomup_state_transition_strict(st, msg) ==
    IF st.applied_bottomup_nonce = MAX_NONCE /\ msg.nonce = 0
    THEN [err |-> "ok", st |-> [st EXCEPT !.applied_bottomup_nonce = 0]]
    ELSE IF wrapping_add(st.applied_bottomup_nonce, 1) = msg.nonce
         THEN [err |-> "ok",
               st |-> [st EXCEPT !.applied_bottomup_nonce = wrapping_add(@, 1)]]
         ELSE [err |-> "the bottom-up message being applied doesn't hold the subsequent nonce",
               st |-> st]

\* State::bottomup_state_transition
bottomup_state_transition(st, msg) ==
    LET applied == IF st.applied_bottomup_nonce = MAX_NONCE /\ msg.nonce = 0
                   THEN 0
                   ELSE IF wrapping_add(st.applied_bottomup_nonce, 1) = msg.nonce
                        THEN wrapping_add(st.applied_bottomup_nonce, 1)
                        ELSE st.applied_bottomup_nonce
    IN IF applied # msg.nonce
       THEN [err |-> "the bottom-up message being applied doesn't hold the subsequent nonce",
             st |-> st]
       ELSE [err |-> "ok", st |-> [st EXCEPT !.applied_bottomup_nonce = applied]]

\* a faulty insert that stores the message with no owners
insert_postbox_unowned(st, owners, msg) ==
    [st  |-> [st EXCEPT !.postbox =
                 (Cid(PostBoxItem(msg, None)) :> PostBoxItem(msg, None)) @@ @],
     cid |-> Cid(PostBoxItem(msg, None))]

\* State::insert_postbox
insert_postbox(st, owners, msg) ==
    [st  |-> [st EXCEPT !.postbox =
                 (Cid(PostBoxItem(msg, owners)) :> PostBoxItem(msg, owners)) @@ @],
     cid |-> Cid(PostBoxItem(msg, owners))]

(***************************************************************************)
(* gateway/src/lib.rs: ApplyMessage                                        *)
(***************************************************************************)
\* CrossMsg::send -- the message handed to the runtime for its raw destination
Send(msg, rto) == [to |-> rto, value |-> msg.value]

\* what a failed cross-message call leaves
Rejected(err, st) == [err |-> err, st |-> st, sent |-> << >>, ret |-> None]

\* Actor::apply_msg and the whole of Actor::apply_msg_inner.  sent lists the
\* messages dispatched, ret is the key returned for a message put in the
\* postbox.
apply_msg(st, msg, current_balance) ==
    LET rto == msg.to.raw_address
        sto == msg.to.subnet_id
        posted(p) == [err |-> "ok", st |-> p.st, sent |-> << >>, ret |-> Some(p.cid)]
        to_postbox == posted(insert_postbox(st, Some(<<msg.from.raw_address>>), msg))
        moved(t) == IF t.err # "ok" THEN Rejected(t.err, st)
                    ELSE [err |-> "ok", st |-> t.st, sent |-> <<Send(msg, rto)>>,
                          ret |-> None]
    IN IF apply_type(msg, network_name) = "BottomUp"
       THEN IF sto = network_name
            THEN moved(bottomup_state_transition(st, msg))
            ELSE to_postbox
       ELSE IF current_balance < msg.value
            THEN Rejected("not enough balance to mint new tokens as part of the cross-message", st)
            ELSE IF sto = network_name
                 THEN moved(apply_msg_inner(st, msg.nonce))
                 ELSE to_postbox

(***************************************************************************)
(* gateway/src/state.rs: subnets and commits                               *)
(***************************************************************************)
\* the Subnet that State::register_subnet creates
NewSubnet(id, val) ==
    [id |-> id, stake |-> val, top_down_msgs |-> << >>, circ_supply |-> 0,
     status |-> "Active", nonce |-> 0, prev_checkpoint |-> None]

\* a faulty registration that takes any collateral
register_subnet_any_stake(st, id, val) ==
    IF id \in DOMAIN st.subnets
    THEN [err |-> "ok", st |-> st]
    ELSE [err |-> "ok",
          st |-> [st EXCEPT !.subnets = (id :> NewSubnet(id, val)) @@ @,
                            !.total_subnets = @ + 1]]

\* State::register_subnet
register_subnet(st, id, val) ==
    IF val < min_stake
    THEN [err |-> "call to register doesn't include enough funds", st |-> st]
    ELSE IF id \in DOMAIN st.subnets
         THEN [err |-> "ok", st |-> st]
         ELSE [err |-> "ok",
               st |-> [st EXCEPT !.subnets = (id :> NewSubnet(id, val)) @@ @,
                                 !.total_subnets = @ + 1]]

\* Subnet::store_topdown_msg -- appends the message to the subnet's queue
store_topdown_msg(sub, msg) == [sub EXCEPT !.top_down_msgs = Append(@, msg)]

\* a faulty commit that does not stamp the subnet's nonce on the message
commit_topdown_msg_unstamped(st, msg) ==
    IF down(msg.to.subnet_id, network_name) = None
    THEN [err |-> "couldn't compute the next subnet in route", st |-> st, msg |-> msg]
    ELSE IF Unwrap(down(msg.to.subnet_id, network_name)) \notin DOMAIN st.subnets
         THEN [err |-> "can't direct top-down message to destination subnet",
               st |-> st, msg |-> msg]
         ELSE LET id == Unwrap(down(msg.to.subnet_id, network_name))
                  stored(sub) == [sub EXCEPT !.nonce = @ + 1,
                                             !.circ_supply = @ + msg.value]
              IN [err |-> "ok",
                  st |-> [st EXCEPT !.subnets[id] =
                             stored(store_topdown_msg(st.subnets[id], msg))],
                  msg |-> msg]

\* a faulty commit that does not add the value to the circulating supply
commit_topdown_msg_unsupplied(st, msg) ==
    IF down(msg.to.subnet_id, network_name) = None
    THEN [err |-> "couldn't compute the next subnet in route", st |-> st, msg |-> msg]
    ELSE IF Unwrap(down(msg.to.subnet_id, network_name)) \notin DOMAIN st.subnets
         THEN [err |-> "can't direct top-down message to destination subnet",
               st |-> st, msg |-> msg]
         ELSE LET id == Unwrap(down(msg.to.subnet_id, network_name))
                  stamped(sub) == [msg EXCEPT !.nonce = sub.nonce]
                  stored(sub) == [sub EXCEPT !.nonce = @ + 1]
              IN [err |-> "ok",
                  st |-> [st EXCEPT !.subnets[id] =
                             stored(store_topdown_msg(st.subnets[id],
                                                      stamped(st.subnets[id])))],
                  msg |-> stamped(st.subnets[id])]

\* State::commit_topdown_msg -- msg is the message with the nonce it was given
commit_topdown_msg(st, msg) ==
    IF down(msg.to.subnet_id, network_name) = None
    THEN [err |-> "couldn't compute the next subnet in route", st |-> st, msg |-> msg]
    ELSE IF Unwrap(down(msg.to.subnet_id, network_name)) \notin DOMAIN st.subnets
         THEN [err |-> "can't direct top-down message to destination subnet",
               st |-> st, msg |-> msg]
         ELSE LET id == Unwrap(down(msg.to.subnet_id, network_name))
                  stamped(sub) == [msg EXCEPT !.nonce = sub.nonce]
                  stored(sub) == [sub EXCEPT !.nonce = @ + 1,
                                             !.circ_supply = @ + msg.value]
              IN [err |-> "ok",
                  st |-> [st EXCEPT !.subnets[id] =
                             stored(store_topdown_msg(st.subnets[id],
                                                      stamped(st.subnets[id])))],
                  msg |-> stamped(st.subnets[id])]

\* window_epoch (src/checkpoint.rs) -- the epoch of the window that is open
\* at an epoch; no operation of the gateway calls it
window_epoch(epoch, period) == period * ((epoch \div period) + 1)

\* checkpoint_epoch (src/checkpoint.rs) -- the epoch of the checkpoint that
\* State::get_window_checkpoint loads
checkpoint_epoch(epoch, period) == (epoch \div period) * period

\* State::store_msg_in_checkpoint -- the message joins the cross-messages of
\* the window checkpoint of curr_epoch
store_msg_in_checkpoint(st, msg, curr_epoch) ==
    LET ch_epoch == checkpoint_epoch(curr_epoch, check_period)
        ch == IF ch_epoch \in DOMAIN st.checkpoints THEN st.checkpoints[ch_epoch]
              ELSE << >>
    IN [st EXCEPT !.checkpoints = (ch_epoch :> Append(ch, msg)) @@ @]

\* a faulty commit that leaves the nonce of the bottom-up messages as it is
commit_bottomup_msg_uncounted(st, msg, curr_epoch) ==
    IF curr_epoch < 0
    THEN [err |-> "epoch can't be negative", st |-> st, msg |-> msg]
    ELSE [err |-> "ok", st |-> store_msg_in_checkpoint(st, msg, curr_epoch),
          msg |-> msg]

\* State::commit_bottomup_msg
commit_bottomup_msg(st, msg, curr_epoch) ==
    IF curr_epoch < 0
    THEN [err |-> "epoch can't be negative", st |-> st, msg |-> msg]
    ELSE [err |-> "ok",
          st |-> [store_msg_in_checkpoint(st, msg, curr_epoch) EXCEPT !.nonce = @ + 1],
          msg |-> msg]

\* a faulty collection that takes no fee
collect_cross_fee_free(balance, fee) ==
    IF balance < fee THEN None ELSE Some(balance)

\* State::collect_cross_fee -- the balance left, None when it cannot pay the fee
collect_cross_fee(balance, fee) ==
    IF balance < fee THEN None ELSE Some(balance - fee)

\* State::load_from_postbox
load_from_postbox(st, cid) ==
    IF cid \in DOMAIN st.postbox THEN Some(st.postbox[cid]) ELSE None

\* State::swap_postbox_item
swap_postbox_item(st, cid, item) ==
    IF cid \notin DOMAIN st.postbox
    THEN [err |-> "cid not found in postbox", st |-> st]
    ELSE [err |-> "ok",
          st |-> [st EXCEPT !.postbox =
                     (Cid(item) :> item) @@ MapDelete(st.postbox, cid)]]

\* State::remove_from_postbox
remove_from_postbox(st, cid) == [st EXCEPT !.postbox = MapDelete(@, cid)]

(***************************************************************************)
(* gateway/src/lib.rs: the cross-message operations                        *)
(***************************************************************************)
\* SubnetID::default(), the undefined subnet id
DefaultSubnetID == <<0>>

\* SubnetID::subnet_actor -- the last address of the path
subnet_actor(id) == IF id = << >> THEN 0 ELSE id[Len(id)]

\* distribute_crossmsg_fee -- the fee goes to the subnet actor, unless zero
distribute_crossmsg_fee(actor, fee) ==
    IF fee = 0 THEN << >> ELSE <<[to |-> actor, value |-> fee]>>

\* burn_bu_funds -- the value goes to the burnt funds actor
burn_bu_funds(value) == <<[to |-> BURNT_FUNDS_ACTOR_ADDR, value |-> value]>>

\* cross_msg_side_effects -- burns the value of a bottom-up message and hands
\* the fee of a top-down one to the subnet actor of the next subnet down
cross_msg_side_effects(msg, do_burn, top_down_fee) ==
    (IF do_burn THEN burn_bu_funds(msg.value) ELSE << >>)
    \o (IF top_down_fee = 0 \/ down(msg.to.subnet_id, network_name) = None
        THEN << >>
        ELSE distribute_crossmsg_fee(
                 subnet_actor(Unwrap(down(msg.to.subnet_id, network_name))),
                 top_down_fee))

\* a faulty commit that keeps a bottom-up message going up at the common parent
commit_cross_message_upwards(st, msg, fee, curr_epoch) ==
    LET sto   == msg.to.subnet_id
        done(r, do_burn, top_down_fee) ==
            IF r.err # "ok"
            THEN [err |-> r.err, st |-> st, msg |-> msg, do_burn |-> FALSE,
                  top_down_fee |-> 0]
            ELSE [err |-> "ok", st |-> r.st, msg |-> r.msg, do_burn |-> do_burn,
                  top_down_fee |-> top_down_fee]
    IN IF sto = network_name
       THEN done([err |-> "should already be committed"], FALSE, 0)
       ELSE IF apply_type(msg, network_name) = "BottomUp"
            THEN done(commit_bottomup_msg(st, msg, curr_epoch), msg.value > 0, 0)
            ELSE done(commit_topdown_msg(
                          [st EXCEPT !.applied_topdown_nonce = @ + 1], msg),
                      FALSE, fee)

\* Actor::commit_cross_message
commit_cross_message(st, msg, fee, curr_epoch) ==
    LET sto   == msg.to.subnet_id
        sfrom == msg.from.subnet_id
        done(r, do_burn, top_down_fee) ==
            IF r.err # "ok"
            THEN [err |-> r.err, st |-> st, msg |-> msg, do_burn |-> FALSE,
                  top_down_fee |-> 0]
            ELSE [err |-> "ok", st |-> r.st, msg |-> r.msg, do_burn |-> do_burn,
                  top_down_fee |-> top_down_fee]
    IN IF sto = network_name
       THEN done([err |-> "should already be committed"], FALSE, 0)
       ELSE IF apply_type(msg, network_name) = "BottomUp"
            THEN IF common_parent(sto, sfrom) = network_name
                 THEN done(commit_topdown_msg(st, msg), FALSE, fee)
                 ELSE done(commit_bottomup_msg(st, msg, curr_epoch),
                           msg.value > 0, 0)
            ELSE done(commit_topdown_msg(
                          [st EXCEPT !.applied_topdown_nonce = @ + 1], msg),
                      FALSE, fee)

\* Actor::register
register(st, subnet_addr, value_received) ==
    LET shid == new_from_parent(network_name, subnet_addr)
        registered(r) ==
            IF r.err # "ok" THEN Rejected("Failed to register subnet", st)
            ELSE [err |-> "ok", st |-> r.st, sent |-> << >>, ret |-> Some(shid)]
    IN IF shid \in DOMAIN st.subnets
       THEN Rejected("subnet already registered", st)
       ELSE registered(register_subnet(st, shid, value_received))

\* StorableMsg::new_fund_msg
new_fund_msg(sub_id, sig_addr, value) ==
    IF parent(sub_id) = None THEN None
    ELSE Some(StorableMsg(IPCAddress(Unwrap(parent(sub_id)), sig_addr),
                          IPCAddress(sub_id, sig_addr), value, 0))

\* StorableMsg::new_release_msg
new_release_msg(sub_id, sig_addr, value, msg_nonce) ==
    IF parent(sub_id) = None THEN None
    ELSE Some(StorableMsg(IPCAddress(sub_id, BURNT_FUNDS_ACTOR_ADDR),
                          IPCAddress(Unwrap(parent(sub_id)), sig_addr),
                          value, msg_nonce))

\* Actor::fund
fund(st, caller, signable, params, value_received) ==
    LET fee == CROSS_MSG_FEE
        committed(r) ==
            IF r.err # "ok" THEN Rejected("error committing top-down message", st)
            ELSE [err |-> "ok", st |-> r.st,
                  sent |-> distribute_crossmsg_fee(subnet_actor(params), fee),
                  ret |-> None]
        created(f_msg) ==
            IF f_msg = None THEN Rejected("error creating fund cross-message", st)
            ELSE committed(commit_topdown_msg(st, Unwrap(f_msg)))
        collected(value) ==
            IF value = None THEN Rejected("not enough gas to pay cross-message", st)
            ELSE created(new_fund_msg(params, caller, Unwrap(value)))
    IN IF ~signable THEN Rejected("caller type not allowed", st)
       ELSE IF value_received <= 0
            THEN Rejected("no funds included in fund message", st)
            ELSE collected(collect_cross_fee(value_received, fee))

\* Actor::release
release(st, caller, signable, value_received, curr_epoch) ==
    LET fee == CROSS_MSG_FEE
        committed(r, value) ==
            IF r.err # "ok" THEN Rejected("error committing top-down message", st)
            ELSE [err |-> "ok", st |-> r.st, sent |-> burn_bu_funds(value),
                  ret |-> None]
        created(r_msg, value) ==
            IF r_msg = None THEN Rejected("error creating release cross-message", st)
            ELSE committed(commit_bottomup_msg(st, Unwrap(r_msg), curr_epoch), value)
        collected(value) ==
            IF value = None THEN Rejected("not enough gas to pay cross-message", st)
            ELSE created(new_release_msg(network_name, caller, Unwrap(value), st.nonce),
                         Unwrap(value))
    IN IF ~signable THEN Rejected("caller type not allowed", st)
       ELSE IF value_received <= 0
            THEN Rejected("no funds included in message", st)
            ELSE collected(collect_cross_fee(value_received, fee))

\* Actor::send_cross.  to and value are the fields of the message in the
\* parameters that the call reads.
send_cross(st, caller, signable, destination, to, value, value_received, curr_epoch) ==
    LET fee == CROSS_MSG_FEE
        committed(r) ==
            IF r.err # "ok" THEN Rejected(r.err, st)
            ELSE [err |-> "ok", st |-> r.st,
                  sent |-> cross_msg_side_effects(r.msg, r.do_burn, r.top_down_fee),
                  ret |-> None]
        collected(left) ==
            IF left = None THEN Rejected("not enough gas to pay cross-message", st)
            ELSE committed(commit_cross_message(
                     st,
                     StorableMsg(IPCAddress(network_name, caller),
                                 IPCAddress(destination, to), Unwrap(left), 0),
                     fee, curr_epoch))
    IN IF signable THEN Rejected("caller type not allowed", st)
       ELSE IF destination = DefaultSubnetID
            THEN Rejected("no destination for cross-message explicitly set", st)
            ELSE IF destination = network_name
                 THEN Rejected("destination is the current network", st)
                 ELSE IF value_received # value
                      THEN Rejected("the funds in cross-msg params are not equal to the ones sent in the message", st)
                      ELSE collected(collect_cross_fee(value, fee))

\* a faulty WhiteListPropagator that lets every caller extend the owners
whitelist_propagator_by_anyone(st, caller, postbox_cid, to_add) ==
    LET swapped(r) ==
            IF r.err # "ok" THEN Rejected("cannot load from postbox", st)
            ELSE [err |-> "ok", st |-> r.st, sent |-> << >>, ret |-> None]
        loaded(postbox_item) ==
            IF postbox_item = None THEN Rejected("cannot load from postbox", st)
            ELSE IF Unwrap(postbox_item).owners = None
                 THEN Rejected("postbox item cannot add owner for now", st)
                 ELSE swapped(swap_postbox_item(
                          st, postbox_cid,
                          [Unwrap(postbox_item) EXCEPT
                               !.owners = Some(Unwrap(@) \o to_add)]))
    IN loaded(load_from_postbox(st, postbox_cid))

\* Actor::whitelist_propagator
whitelist_propagator(st, caller, postbox_cid, to_add) ==
    LET swapped(r) ==
            IF r.err # "ok" THEN Rejected("cannot load from postbox", st)
            ELSE [err |-> "ok", st |-> r.st, sent |-> << >>, ret |-> None]
        loaded(postbox_item) ==
            IF postbox_item = None THEN Rejected("cannot load from postbox", st)
            ELSE IF Unwrap(postbox_item).owners = None
                 THEN Rejected("postbox item cannot add owner for now", st)
                 ELSE IF \A i \in DOMAIN Unwrap(Unwrap(postbox_item).owners) :
                            Unwrap(Unwrap(postbox_item).owners)[i] # caller
                      THEN Rejected("not owner", st)
                      ELSE swapped(swap_postbox_item(
                               st, postbox_cid,
                               [Unwrap(postbox_item) EXCEPT
                                    !.owners = Some(Unwrap(@) \o to_add)]))
    IN loaded(load_from_postbox(st, postbox_cid))

\* a faulty Propagate that lets every caller propagate every entry
propagate_by_anyone(st, caller, postbox_cid, value_received, curr_epoch) ==
    LET fee == CROSS_MSG_FEE
        committed(r, value) ==
            IF r.err # "ok" THEN Rejected(r.err, st)
            ELSE [err |-> "ok", st |-> remove_from_postbox(r.st, postbox_cid),
                  sent |-> cross_msg_side_effects(r.msg, r.do_burn, r.top_down_fee)
                             \o (IF value = 0 THEN << >>
                                 ELSE <<[to |-> caller, value |-> value]>>),
                  ret |-> None]
        collected(postbox_item, value) ==
            IF value = None THEN Rejected("not enough gas to pay cross-message", st)
            ELSE committed(commit_cross_message(st, postbox_item.cross_msg, fee,
                                                curr_epoch),
                           Unwrap(value))
        loaded(postbox_item) ==
            IF postbox_item = None THEN Rejected("cannot load from postbox", st)
            ELSE collected(Unwrap(postbox_item),
                           collect_cross_fee(value_received, fee))
    IN loaded(load_from_postbox(st, postbox_cid))

\* Actor::propagate
propagate(st, caller, postbox_cid, value_received, curr_epoch) ==
    LET fee == CROSS_MSG_FEE
        committed(r, value) ==
            IF r.err # "ok" THEN Rejected(r.err, st)
            ELSE [err |-> "ok", st |-> remove_from_postbox(r.st, postbox_cid),
                  sent |-> cross_msg_side_effects(r.msg, r.do_burn, r.top_down_fee)
                             \o (IF value = 0 THEN << >>
                                 ELSE <<[to |-> caller, value |-> value]>>),
                  ret |-> None]
        collected(postbox_item, value) ==
            IF value = None THEN Rejected("not enough gas to pay cross-message", st)
            ELSE committed(commit_cross_message(st, postbox_item.cross_msg, fee,
                                                curr_epoch),
                           Unwrap(value))
        loaded(postbox_item) ==
            IF postbox_item = None THEN Rejected("cannot load from postbox", st)
            ELSE IF /\ Unwrap(postbox_item).owners # None
                    /\ \A i \in DOMAIN Unwrap(Unwrap(postbox_item).owners) :
                          Unwrap(Unwrap(postbox_item).owners)[i] # caller
                 THEN Rejected("owner not match", st)
                 ELSE collected(Unwrap(postbox_item),
                                collect_cross_fee(value_received, fee))
    IN loaded(load_from_postbox(st, postbox_cid))

(***************************************************************************)
(* gateway/src/lib.rs: the stake of a subnet and its removal               *)
(***************************************************************************)
\* Subnet::add_stake -- adds value, which release_stake hands in negated, to
\* the stake of the subnet, makes the subnet inactive when the stake is then
\* below min_stake, and flushes the subnet
Subnet_add_stake(st, sub, value) ==
    [st EXCEPT !.subnets[sub.id] =
        [sub EXCEPT !.stake = @ + value,
                    !.status = IF sub.stake + value < min_stake
                               THEN "Inactive" ELSE @]]

\* Actor::add_stake
add_stake(st, subnet_addr, value_received) ==
    LET shid == new_from_parent(network_name, subnet_addr)
    IN IF value_received <= 0 THEN Rejected("no stake to add", st)
       ELSE IF shid \notin DOMAIN st.subnets
            THEN Rejected("subnet not registered", st)
            ELSE [err |-> "ok",
                  st |-> Subnet_add_stake(st, st.subnets[shid], value_received),
                  sent |-> << >>, ret |-> None]

\* Actor::release_stake
release_stake(st, subnet_addr, send_val, current_balance) ==
    LET shid == new_from_parent(network_name, subnet_addr)
    IN IF send_val <= 0 THEN Rejected("no funds to release in params", st)
       ELSE IF shid \notin DOMAIN st.subnets
            THEN Rejected("subnet not registered", st)
            ELSE IF st.subnets[shid].stake < send_val
                 THEN Rejected("subnet actor not allowed to release so many funds", st)
                 ELSE IF current_balance < send_val
                      THEN Rejected("the actor doesn't have enough balance to release", st)
                      ELSE [err |-> "ok",
                            st |-> Subnet_add_stake(st, st.subnets[shid], -send_val),
                            sent |-> <<[to |-> subnet_addr, value |-> send_val]>>,
                            ret |-> None]

\* State::rm_subnet
rm_subnet(st, id) ==
    IF id \in DOMAIN st.subnets
    THEN [st EXCEPT !.subnets = MapDelete(@, id), !.total_subnets = @ - 1]
    ELSE st

\* a faulty Kill that removes a subnet whatever its circulating supply
kill_with_supply(st, subnet_addr, current_balance) ==
    LET shid == new_from_parent(network_name, subnet_addr)
    IN IF shid \notin DOMAIN st.subnets
       THEN Rejected("subnet not registered", st)
       ELSE IF current_balance < st.subnets[shid].stake
            THEN Rejected("the actor doesn't have enough balance to release", st)
            ELSE [err |-> "ok", st |-> rm_subnet(st, shid),
                  sent |-> <<[to |-> subnet_addr,
                              value |-> st.subnets[shid].stake]>>,
                  ret |-> None]

\* a faulty Kill that removes inactive subnets only
kill_inactive_only(st, subnet_addr, current_balance) ==
    LET shid == new_from_parent(network_name, subnet_addr)
    IN IF shid \notin DOMAIN st.subnets
       THEN Rejected("subnet not registered", st)
       ELSE IF current_balance < st.subnets[shid].stake
            THEN Rejected("the actor doesn't have enough balance to release", st)
            ELSE IF st.subnets[shid].circ_supply > 0
                 THEN Rejected("cannot kill a subnet that still holds user funds in its circ. supply", st)
                 ELSE IF st.subnets[shid].status # "Inactive"
                      THEN Rejected("cannot kill an active subnet", st)
                      ELSE [err |-> "ok", st |-> rm_subnet(st, shid),
                            sent |-> <<[to |-> subnet_addr,
                                        value |-> st.subnets[shid].stake]>>,
                            ret |-> None]

\* Actor::kill
kill(st, subnet_addr, current_balance) ==
    LET shid == new_from_parent(network_name, subnet_addr)
    IN IF shid \notin DOMAIN st.subnets
       THEN Rejected("subnet not registered", st)
       ELSE IF current_balance < st.subnets[shid].stake
            THEN Rejected("the actor doesn't have enough balance to release", st)
            ELSE IF st.subnets[shid].circ_supply > 0
                 THEN Rejected("cannot kill a subnet that still holds user funds in its circ. supply", st)
                 ELSE [err |-> "ok", st |-> rm_subnet(st, shid),
                       sent |-> <<[to |-> subnet_addr,
                                   value |-> st.subnets[shid].stake]>>,
                       ret |-> None]

(***************************************************************************)
(* gateway/src/lib.rs: the commit of a checkpoint of a child subnet.  A    *)
(* checkpoint is its data: the source, the epoch, the link to the previous *)
(* checkpoint and the batch of cross-messages it carries, if any.          *)
(***************************************************************************)
\* TCid::default(), the link that points to nothing
TCid_default == << >>

\* the checkpoint a child subnet commits
Checkpoint(source, epoch, prev_check, cross_msgs) ==
    [source |-> source, epoch |-> epoch, prev_check |-> prev_check,
     cross_msgs |-> cross_msgs]

\* Checkpoint::cid -- the hash of the data of the checkpoint
Checkpoint_cid(ch) == <<"cid", ch>>

\* the batch of cross-messages of a checkpoint
BatchCrossMsgs(msgs_cid, value, fee) ==
    [msgs_cid |-> msgs_cid, value |-> value, fee |-> fee]

\* State::get_window_checkpoint -- the epoch of the checkpoint it loads or
\* creates, None for a negative epoch
get_window_checkpoint(st, epoch) ==
    IF epoch < 0 THEN None ELSE Some(checkpoint_epoch(epoch, check_period))

\* the child checkpoints of a source in the checkpoint of an epoch
ChildChecks(st, ch_epoch, source) ==
    IF ch_epoch \in DOMAIN st.children /\ source \in DOMAIN st.children[ch_epoch]
    THEN st.children[ch_epoch][source]
    ELSE << >>

\* a faulty addition that takes a checkpoint the list already holds
add_child_check_again(st, ch_epoch, commit) ==
    [err |-> "ok",
     st |-> [st EXCEPT !.children =
                (ch_epoch :>
                    ((commit.source :>
                         Append(ChildChecks(st, ch_epoch, commit.source),
                                Checkpoint_cid(commit)))
                     @@ (IF ch_epoch \in DOMAIN st.children
                         THEN st.children[ch_epoch] ELSE << >>)))
                @@ @]]

\* Checkpoint::add_child_check, on the checkpoint of ch_epoch, and the
\* State::flush_checkpoint that stores it
add_child_check(st, ch_epoch, commit) ==
    IF \E i \in DOMAIN ChildChecks(st, ch_epoch, commit.source) :
           ChildChecks(st, ch_epoch, commit.source)[i] = Checkpoint_cid(commit)
    THEN [err |-> "child checkpoint being committed already exists for source",
          st |-> st]
    ELSE [err |-> "ok",
          st |-> [st EXCEPT !.children =
                     (ch_epoch :>
                         ((commit.source :>
                              Append(ChildChecks(st, ch_epoch, commit.source),
                                     Checkpoint_cid(commit)))
                          @@ (IF ch_epoch \in DOMAIN st.children
                              THEN st.children[ch_epoch] ELSE << >>)))
                     @@ @]]

\* State::store_bottomup_msg -- the batch is kept at the next bottom-up nonce
store_bottomup_msg(st, meta) ==
    [st EXCEPT !.bottomup_msg_meta = (st.bottomup_nonce :> meta) @@ @,
               !.bottomup_nonce = @ + 1]

\* Subnet::release_supply -- None when the supply does not cover the value
release_supply(sub, value) ==
    IF sub.circ_supply < value THEN None
    ELSE Some([sub EXCEPT !.circ_supply = @ - value])

\* a faulty commit that takes no checkpoint older than or as old as the last
commit_child_check_increasing(st, subnet_addr, commit, curr_epoch) ==
    LET shid == new_from_parent(network_name, subnet_addr)
        flushed(r, sub, fee) ==
            IF r.err # "ok" THEN Rejected("error adding child checkpoint", st)
            ELSE [err |-> "ok",
                  st |-> [r.st EXCEPT !.subnets[shid] =
                             [sub EXCEPT !.prev_checkpoint = Some(commit)]],
                  sent |-> distribute_crossmsg_fee(subnet_addr, fee),
                  ret |-> None]
        released(st1, sub, ch_epoch, fee) ==
            IF sub = None
            THEN Rejected("error releasing circulating supply", st)
            ELSE flushed(add_child_check(st1, ch_epoch, commit), Unwrap(sub), fee)
        crossed(sub, ch_epoch) ==
            IF commit.cross_msgs = None
            THEN flushed(add_child_check(st, ch_epoch, commit), sub, 0)
            ELSE released(IF Unwrap(commit.cross_msgs).msgs_cid # TCid_default
                          THEN store_bottomup_msg(st, Unwrap(commit.cross_msgs))
                          ELSE st,
                          release_supply(sub, Unwrap(commit.cross_msgs).value),
                          ch_epoch, Unwrap(commit.cross_msgs).fee)
        chained(sub, ch_epoch) ==
            IF sub.prev_checkpoint # None
               /\ Unwrap(sub.prev_checkpoint).epoch >= commit.epoch
            THEN Rejected("checkpoint being committed belongs to the past", st)
            ELSE IF sub.prev_checkpoint # None
                    /\ commit.prev_check # Checkpoint_cid(Unwrap(sub.prev_checkpoint))
                 THEN Rejected("previous checkpoint not consistente with previous one", st)
                 ELSE crossed(sub, ch_epoch)
        windowed(sub, ch) ==
            IF ch = None THEN Rejected("failed to get current epoch checkpoint", st)
            ELSE chained(sub, Unwrap(ch))
    IN IF subnet_addr # subnet_actor(commit.source)
       THEN Rejected("source in checkpoint doesn't belong to subnet", st)
       ELSE IF shid \notin DOMAIN st.subnets
            THEN Rejected("subnet not registered", st)
            ELSE IF st.subnets[shid].status # "Active"
                 THEN Rejected("can't commit checkpoint for an inactive subnet", st)
                 ELSE windowed(st.subnets[shid],
                               get_window_checkpoint(st, curr_epoch))

\* a faulty commit that takes a first checkpoint only if it links to nothing
commit_child_check_rooted(st, subnet_addr, commit, curr_epoch) ==
    LET shid == new_from_parent(network_name, subnet_addr)
        flushed(r, sub, fee) ==
            IF r.err # "ok" THEN Rejected("error adding child checkpoint", st)
            ELSE [err |-> "ok",
                  st |-> [r.st EXCEPT !.subnets[shid] =
                             [sub EXCEPT !.prev_checkpoint = Some(commit)]],
                  sent |-> distribute_crossmsg_fee(subnet_addr, fee),
                  ret |-> None]
        released(st1, sub, ch_epoch, fee) ==
            IF sub = None
            THEN Rejected("error releasing circulating supply", st)
            ELSE flushed(add_child_check(st1, ch_epoch, commit), Unwrap(sub), fee)
        crossed(sub, ch_epoch) ==
            IF commit.cross_msgs = None
            THEN flushed(add_child_check(st, ch_epoch, commit), sub, 0)
            ELSE released(IF Unwrap(commit.cross_msgs).msgs_cid # TCid_default
                          THEN store_bottomup_msg(st, Unwrap(commit.cross_msgs))
                          ELSE st,
                          release_supply(sub, Unwrap(commit.cross_msgs).value),
                          ch_epoch, Unwrap(commit.cross_msgs).fee)
        chained(sub, ch_epoch) ==
            IF sub.prev_checkpoint # None
               /\ Unwrap(sub.prev_checkpoint).epoch > commit.epoch
            THEN Rejected("checkpoint being committed belongs to the past", st)
            ELSE IF \/ sub.prev_checkpoint = None /\ commit.prev_check # TCid_default
                    \/ sub.prev_checkpoint # None
                       /\ commit.prev_check # Checkpoint_cid(Unwrap(sub.prev_checkpoint))
                 THEN Rejected("previous checkpoint not consistente with previous one", st)
                 ELSE crossed(sub, ch_epoch)
        windowed(sub, ch) ==
            IF ch = None THEN Rejected("failed to get current epoch checkpoint", st)
            ELSE chained(sub, Unwrap(ch))
    IN IF subnet_addr # subnet_actor(commit.source)
       THEN Rejected("source in checkpoint doesn't belong to subnet", st)
       ELSE IF shid \notin DOMAIN st.subnets
            THEN Rejected("subnet not registered", st)
            ELSE IF st.subnets[shid].status # "Active"
                 THEN Rejected("can't commit checkpoint for an inactive subnet", st)
                 ELSE windowed(st.subnets[shid],
                               get_window_checkpoint(st, curr_epoch))

\* Actor::commit_child_check
commit_child_check(st, subnet_addr, commit, curr_epoch) ==
    LET shid == new_from_parent(network_name, subnet_addr)
        flushed(r, sub, fee) ==
            IF r.err # "ok" THEN Rejected("error adding child checkpoint", st)
            ELSE [err |-> "ok",
                  st |-> [r.st EXCEPT !.subnets[shid] =
                             [sub EXCEPT !.prev_checkpoint = Some(commit)]],
                  sent |-> distribute_crossmsg_fee(subnet_addr, fee),
                  ret |-> None]
        released(st1, sub, ch_epoch, fee) ==
            IF sub = None
            THEN Rejected("error releasing circulating supply", st)
            ELSE flushed(add_child_check(st1, ch_epoch, commit), Unwrap(sub), fee)
        crossed(sub, ch_epoch) ==
            IF commit.cross_msgs = None
            THEN flushed(add_child_check(st, ch_epoch, commit), sub, 0)
            ELSE released(IF Unwrap(commit.cross_msgs).msgs_cid # TCid_default
                          THEN store_bottomup_msg(st, Unwrap(commit.cross_msgs))
                          ELSE st,
                          release_supply(sub, Unwrap(commit.cross_msgs).value),
                          ch_epoch, Unwrap(commit.cross_msgs).fee)
        chained(sub, ch_epoch) ==
            IF sub.prev_checkpoint # None
               /\ Unwrap(sub.prev_checkpoint).epoch > commit.epoch
            THEN Rejected("checkpoint being committed belongs to the past", st)
            ELSE IF sub.prev_checkpoint # None
                    /\ commit.prev_check # Checkpoint_cid(Unwrap(sub.prev_checkpoint))
                 THEN Rejected("previous checkpoint not consistente with previous one", st)
                 ELSE crossed(sub, ch_epoch)
        windowed(sub, ch) ==
            IF ch = None THEN Rejected("failed to get current epoch checkpoint", st)
            ELSE chained(sub, Unwrap(ch))
    IN IF subnet_addr # subnet_actor(commit.source)
       THEN Rejected("source in checkpoint doesn't belong to subnet", st)
       ELSE IF shid \notin DOMAIN st.subnets
            THEN Rejected("subnet not registered", st)
            ELSE IF st.subnets[shid].status # "Active"
                 THEN Rejected("can't commit checkpoint for an inactive subnet", st)
                 ELSE windowed(st.subnets[shid],
                               get_window_checkpoint(st, curr_epoch))

\* the exit code an error of a cross-message or subnet operation is raised
\* with: the kind of its actor_error!, or the default its downcast_default
\* gives to an error of state.rs
exit_code(err) ==
    CASE err = "ok" -> "OK"
      [] err \in {"subnet already registered", "Failed to register subnet",
                  "no stake to add", "no funds to release in params",
                  "subnet not registered",
                  "source in checkpoint doesn't belong to subnet",
                  "checkpoint being committed belongs to the past",
                  "previous checkpoint not consistente with previous one",
                  "error adding child checkpoint",
                  "no funds included in fund message",
                  "no funds included in message",
                  "no destination for cross-message explicitly set",
                  "destination is the current network",
                  "the funds in cross-msg params are not equal to the ones sent in the message"}
            -> "USR_ILLEGAL_ARGUMENT"
      [] err \in {"cannot load from postbox"} -> "USR_UNHANDLED_MESSAGE"
      [] err \in {"caller type not allowed"} -> "USR_FORBIDDEN"
      [] OTHER -> "USR_ILLEGAL_STATE"

(***************************************************************************)
(* The operations as actions.                                              *)
(***************************************************************************)
Returns(r) ==
    /\ validators' = r.st.validators
    /\ last_cron_executed_epoch' = r.st.last_cron_executed_epoch
    /\ executable_epoch_queue' = r.st.executable_epoch_queue
    /\ cron_submissions' = r.st.cron_submissions
    /\ applied_topdown_nonce' = r.st.applied_topdown_nonce
    /\ applied_bottomup_nonce' = r.st.applied_bottomup_nonce
    /\ subnets' = r.st.subnets
    /\ total_subnets' = r.st.total_subnets
    /\ postbox' = r.st.postbox
    /\ nonce' = r.st.nonce
    /\ checkpoints' = r.st.checkpoints
    /\ children' = r.st.children
    /\ bottomup_nonce' = r.st.bottomup_nonce
    /\ bottomup_msg_meta' = r.st.bottomup_msg_meta
    /\ UNCHANGED <<overflow_checks, calc>>

SubmitCronCall(caller, epoch, msgs) ==
    Returns(submit_cron(State, caller, CronCheckpoint(epoch, msgs)))

SubmitCron ==
    \E caller \in Addrs, epoch \in Epochs, msgs \in TopDownMsgLists :
        SubmitCronCall(caller, epoch, msgs)

SetMembershipCall(validator_set) ==
    Returns([err |-> "ok", st |-> set_membership(State, validator_set)])

SetMembership == \E validator_set \in ValidatorSets : SetMembershipCall(validator_set)

Init ==
    /\ validators = NewState.validators
    /\ last_cron_executed_epoch = NewState.last_cron_executed_epoch
    /\ executable_epoch_queue = NewState.executable_epoch_queue
    /\ cron_submissions = NewState.cron_submissions
    /\ applied_topdown_nonce = NewState.applied_topdown_nonce
    /\ applied_bottomup_nonce = NewState.applied_bottomup_nonce
    /\ subnets = NewState.subnets
    /\ total_subnets = NewState.total_subnets
    /\ postbox = NewState.postbox
    /\ nonce = NewState.nonce
    /\ checkpoints = NewState.checkpoints
    /\ children = NewState.children
    /\ bottomup_nonce = NewState.bottomup_nonce
    /\ bottomup_msg_meta = NewState.bottomup_msg_meta
    /\ overflow_checks \in BOOLEAN
    /\ calc = NoCalc

Next == SubmitCron \/ SetMembership

Spec == Init /\ [][Next]_vars

(***************************************************************************)
(* One voting round: the validator set is installed once, then validators  *)
(* vote on the first cron epoch.                                           *)
(***************************************************************************)
InitRound ==
    /\ \E validator_set \in RoundValidatorSets :
           validators = set_membership(NewState, validator_set).validators
    /\ last_cron_executed_epoch = NewState.last_cron_executed_epoch
    /\ executable_epoch_queue = NewState.executable_epoch_queue
    /\ cron_submissions = NewState.cron_submissions
    /\ applied_topdown_nonce = NewState.applied_topdown_nonce
    /\ applied_bottomup_nonce = NewState.applied_bottomup_nonce
    /\ subnets = NewState.subnets
    /\ total_subnets = NewState.total_subnets
    /\ postbox = NewState.postbox
    /\ nonce = NewState.nonce
    /\ checkpoints = NewState.checkpoints
    /\ children = NewState.children
    /\ bottomup_nonce = NewState.bottomup_nonce
    /\ bottomup_msg_meta = NewState.bottomup_msg_meta
    /\ overflow_checks \in BOOLEAN
    /\ calc = NoCalc

SubmitCronRound ==
    \E caller \in RoundAddrs, epoch \in RoundEpochs, msgs \in RoundMsgLists :
        SubmitCronCall(caller, epoch, msgs)

NextRound == SubmitCronRound

RoundSpec == InitRound /\ [][NextRound]_vars

(***************************************************************************)
(* The voting round while the membership changes: the validators of the    *)
(* round vote, and SetMembership installs another of the validator sets.   *)
(***************************************************************************)
SetMembershipRound ==
    \E validator_set \in RoundValidatorSets : SetMembershipCall(validator_set)

NextMember == SubmitCronRound \/ SetMembershipRound

MemberSpec == InitRound /\ [][NextMember]_vars

(***************************************************************************)
(* derive_execution_status as a function of its inputs.                    *)
(***************************************************************************)
\* total weights: the small ones, and the ones around half and all of the u16 range
TotalWeights == (0..MaxTotalWeight) \cup {32767, 32768, U16_MAX}

InitStatus ==
    /\ validators = NewState.validators
    /\ last_cron_executed_epoch = NewState.last_cron_executed_epoch
    /\ executable_epoch_queue = NewState.executable_epoch_queue
    /\ cron_submissions = NewState.cron_submissions
    /\ applied_topdown_nonce = NewState.applied_topdown_nonce
    /\ applied_bottomup_nonce = NewState.applied_bottomup_nonce
    /\ subnets = NewState.subnets
    /\ total_subnets = NewState.total_subnets
    /\ postbox = NewState.postbox
    /\ nonce = NewState.nonce
    /\ checkpoints = NewState.checkpoints
    /\ children = NewState.children
    /\ bottomup_nonce = NewState.bottomup_nonce
    /\ bottomup_msg_meta = NewState.bottomup_msg_meta
    /\ overflow_checks \in BOOLEAN
    /\ \E T \in TotalWeights, S \in TotalWeights, M \in TotalWeights :
           /\ M <= S /\ S <= T
           /\ calc = [T |-> T, S |-> S, M |-> M, status |-> "None"]

DeriveExecutionStatus ==
    /\ calc.status = "None"
    /\ calc' = [calc EXCEPT !.status =
                   derive_execution_status(
                       [NewCronSubmission EXCEPT !.total_submissions = calc.S],
                       calc.T, calc.M)]
    /\ UNCHANGED <<validators, last_cron_executed_epoch, executable_epoch_queue,
                   cron_submissions, applied_topdown_nonce,
                   applied_bottomup_nonce, subnets, total_subnets, postbox,
                   nonce, checkpoints, children,
                   bottomup_nonce, bottomup_msg_meta, overflow_checks>>

NextStatus == DeriveExecutionStatus

StatusSpec == InitStatus /\ [][NextStatus]_vars

(***************************************************************************)
(* The cross-message operations of the gateway of /root/1: subnets         *)
(* register, funds and messages are committed, messages are applied and    *)
(* propagated.                                                             *)
(***************************************************************************)
\* the subnet actors that register
SubnetActors == {1, 2}

\* what the callers send along
Values == {0, CROSS_MSG_FEE - 1, CROSS_MSG_FEE + 50}

\* the epochs at which calls arrive
CurrEpochs == {10}

\* the nonces of the messages applied
MsgNonces == {MAX_NONCE} \cup (0..MaxApplied)

\* the routes of the messages applied: top-down to this subnet and to a
\* child, bottom-up to this subnet, to the root and to another child, and from
\* the sibling subnet to this subnet and to a child
ApplyRoutes ==
    { << << >>, <<1>> >>, << << >>, <<1, 1>> >>, << <<1, 1>>, <<1>> >>,
      << <<1, 1>>, << >> >>, << <<1, 1>>, <<1, 2>> >>, << <<2>>, <<1, 1>> >>,
      << <<2>>, <<1>> >> }

\* the messages applied
ApplyMsgInputs ==
    { StorableMsg(IPCAddress(r[1], 1), IPCAddress(r[2], 2), v, n) :
        r \in ApplyRoutes, v \in {CROSS_MSG_FEE + 50}, n \in MsgNonces }

\* a key that is never in the postbox
UnknownCid ==
    Cid(PostBoxItem(StorableMsg(IPCAddress(ROOTNET_ID, 0), IPCAddress(ROOTNET_ID, 0),
                                0, 0), None))

\* the keys callers pass
PostboxCids == (DOMAIN postbox) \cup {UnknownCid}

\* the size of a state: the calls that would grow it beyond the bounds are
\* not taken
RECURSIVE QueuedIn(_, _)
QueuedIn(subs, ids) ==
    IF ids = {} THEN 0
    ELSE LET id == CHOOSE i \in ids : TRUE
         IN Len(subs[id].top_down_msgs) + QueuedIn(subs, ids \ {id})

Bounded(st) ==
    /\ QueuedIn(st.subnets, DOMAIN st.subnets) + Cardinality(DOMAIN st.postbox)
           + st.nonce <= MaxHeld
    /\ \A c \in DOMAIN st.postbox :
          st.postbox[c].owners # None => Len(Unwrap(st.postbox[c].owners)) <= MaxOwners
    /\ st.applied_topdown_nonce <= MaxApplied
    /\ st.applied_bottomup_nonce <= MaxApplied

CrossReturns(r) == Bounded(r.st) /\ Returns(r)

Register ==
    \E subnet_addr \in SubnetActors, value_received \in {min_stake - 1, min_stake} :
        CrossReturns(register(State, subnet_addr, value_received))

Fund ==
    \E caller \in {1}, signable \in BOOLEAN, params \in SubnetIDs,
       value_received \in Values :
        CrossReturns(fund(State, caller, signable, params, value_received))

Release ==
    \E caller \in {1}, signable \in BOOLEAN, value_received \in Values,
       curr_epoch \in CurrEpochs :
        CrossReturns(release(State, caller, signable, value_received, curr_epoch))

SendCross ==
    \E caller \in {1}, signable \in BOOLEAN,
       destination \in SubnetIDs \cup {DefaultSubnetID}, to \in {2},
       value \in Values, value_received \in Values, curr_epoch \in CurrEpochs :
        CrossReturns(send_cross(State, caller, signable, destination, to, value,
                                value_received, curr_epoch))

ApplyMessage ==
    \E msg \in ApplyMsgInputs, current_balance \in {0, CROSS_MSG_FEE + 50} :
        CrossReturns(apply_msg(State, msg, current_balance))

WhiteListPropagator ==
    \E caller \in Addrs, postbox_cid \in PostboxCids, to_add \in {<<2>>} :
        CrossReturns(whitelist_propagator(State, caller, postbox_cid, to_add))

Propagate ==
    \E caller \in Addrs, postbox_cid \in PostboxCids, value_received \in Values,
       curr_epoch \in CurrEpochs :
        CrossReturns(propagate(State, caller, postbox_cid, value_received,
                               curr_epoch))

InitCross ==
    /\ validators = NewState.validators
    /\ last_cron_executed_epoch = NewState.last_cron_executed_epoch
    /\ executable_epoch_queue = NewState.executable_epoch_queue
    /\ cron_submissions = NewState.cron_submissions
    /\ applied_topdown_nonce = NewState.applied_topdown_nonce
    /\ applied_bottomup_nonce = NewState.applied_bottomup_nonce
    /\ subnets = NewState.subnets
    /\ total_subnets = NewState.total_subnets
    /\ postbox = NewState.postbox
    /\ nonce = NewState.nonce
    /\ checkpoints = NewState.checkpoints
    /\ children = NewState.children
    /\ bottomup_nonce = NewState.bottomup_nonce
    /\ bottomup_msg_meta = NewState.bottomup_msg_meta
    /\ overflow_checks = FALSE
    /\ calc = NoCalc

NextCross ==
    \/ Register
    \/ Fund
    \/ Release
    \/ SendCross
    \/ ApplyMessage
    \/ WhiteListPropagator
    \/ Propagate

CrossSpec == InitCross /\ [][NextCross]_vars

(***************************************************************************)
(* The stake operations of the gateway of /root/1: subnets register, add   *)
(* to their stake and release from it, are funded, and are killed.         *)
(***************************************************************************)
\* what an AddStake is sent along
AddValues == {0, 1}

\* what a ReleaseStake asks for
ReleaseValues == {0, 1, 2}

\* the balances of the gateway a ReleaseStake or a Kill may see
StakeBalances == {0, 1, min_stake + MaxStakeGap}

\* the stakes explored: the calls that would move one further from min_stake
\* are not taken
StakeBounded(st) ==
    \A id \in DOMAIN st.subnets :
        /\ st.subnets[id].stake >= min_stake - MaxStakeGap
        /\ st.subnets[id].stake <= min_stake + MaxStakeGap

StakeReturns(r) == StakeBounded(r.st) /\ CrossReturns(r)

AddStake ==
    \E subnet_addr \in SubnetActors, value_received \in AddValues :
        StakeReturns(add_stake(State, subnet_addr, value_received))

ReleaseStake ==
    \E subnet_addr \in SubnetActors, send_val \in ReleaseValues,
       current_balance \in StakeBalances :
        StakeReturns(release_stake(State, subnet_addr, send_val, current_balance))

Kill ==
    \E subnet_addr \in SubnetActors, current_balance \in StakeBalances :
        StakeReturns(kill(State, subnet_addr, current_balance))

NextStake ==
    \/ Register
    \/ AddStake
    \/ ReleaseStake
    \/ Kill
    \/ Fund

StakeSpec == InitCross /\ [][NextStake]_vars

(***************************************************************************)
(* The commits of checkpoints at the gateway of /root/1: subnets register, *)
(* commit their checkpoints, and are killed.                               *)
(***************************************************************************)
\* the sources the committed checkpoints name: the first child of this
\* subnet, and a subnet of another parent with the same subnet actor
CommitSources == { <<1, 1>>, <<2, 1>> }

\* the epochs the committed checkpoints are of
CommitEpochs == {19, 21}

\* the batches they carry: none, one of messages of no value, and one of
\* messages of a value, each with a fee
CommitBatches ==
    { None,
      Some(BatchCrossMsgs(<<"msgs">>, 0, CROSS_MSG_FEE)),
      Some(BatchCrossMsgs(<<"msgs">>, 50, CROSS_MSG_FEE)) }

\* the epochs the commits are made at: two of one window, one of the next,
\* and a negative one
WindowEpochs == {0 - 1, 10, 15, 20}

\* a checkpoint that is never committed
UnknownCheck == Checkpoint(<<1, 1>>, 0, TCid_default, None)

\* the places of the child checkpoints the window checkpoints of st hold
ChildSlots(st) ==
    UNION { UNION { { <<e, src, i>> : i \in DOMAIN st.children[e][src] } :
                    src \in DOMAIN st.children[e] } :
            e \in DOMAIN st.children }

\* the child checkpoints the window checkpoints of st hold
CommittedCids(st) == { st.children[p[1]][p[2]][p[3]] : p \in ChildSlots(st) }

\* the links a committed checkpoint may carry: none, the one to a checkpoint
\* the gateway never saw, and the ones to the checkpoints it holds
PrevChecks(st) ==
    {TCid_default, Checkpoint_cid(UnknownCheck)} \cup CommittedCids(st)

\* the commits explored: no more than MaxCommits are taken
CommitBounded(st) == Cardinality(ChildSlots(st)) <= MaxCommits

CommitReturns(r) == CommitBounded(r.st) /\ CrossReturns(r)

CommitChildCheckpoint ==
    \E subnet_addr \in SubnetActors, source \in CommitSources,
       epoch \in CommitEpochs, prev_check \in PrevChecks(State),
       cross_msgs \in CommitBatches, curr_epoch \in WindowEpochs :
        CommitReturns(commit_child_check(
            State, subnet_addr,
            Checkpoint(source, epoch, prev_check, cross_msgs), curr_epoch))

NextCommit ==
    \/ Register
    \/ Kill
    \/ CommitChildCheckpoint

CommitSpec == InitCross /\ [][NextCommit]_vars

(***************************************************************************)
(* The classification of a message as a function of its ends and of the    *)
(* subnet that looks at it.                                                *)
(***************************************************************************)
\* the subnets of a tree of two subnet actors per subnet, MaxDepth deep
TreeIDs == UNION { [1..n -> SubnetActors] : n \in 0..MaxDepth }

\* the inputs of a classification: the ends of the message and the subnet
\* looking at it, with no result yet
InitClass ==
    /\ validators = NewState.validators
    /\ last_cron_executed_epoch = NewState.last_cron_executed_epoch
    /\ executable_epoch_queue = NewState.executable_epoch_queue
    /\ cron_submissions = NewState.cron_submissions
    /\ applied_topdown_nonce = NewState.applied_topdown_nonce
    /\ applied_bottomup_nonce = NewState.applied_bottomup_nonce
    /\ subnets = NewState.subnets
    /\ total_subnets = NewState.total_subnets
    /\ postbox = NewState.postbox
    /\ nonce = NewState.nonce
    /\ checkpoints = NewState.checkpoints
    /\ children = NewState.children
    /\ bottomup_nonce = NewState.bottomup_nonce
    /\ bottomup_msg_meta = NewState.bottomup_msg_meta
    /\ overflow_checks = FALSE
    /\ \E from \in TreeIDs, to \in TreeIDs, curr \in TreeIDs :
          calc = [from |-> from, to |-> to, curr |-> curr, done |-> FALSE,
                  bottomup |-> FALSE, type |-> "None"]

\* the call of is_bottomup and of apply_type on the inputs
Classify ==
    /\ ~calc.done
    /\ calc' = [calc EXCEPT
                   !.done = TRUE,
                   !.bottomup = is_bottomup(calc.from, calc.to),
                   !.type = apply_type(StorableMsg(IPCAddress(calc.from, 1),
                                                   IPCAddress(calc.to, 2), 0, 0),
                                       calc.curr)]
    /\ UNCHANGED <<validators, last_cron_executed_epoch, executable_epoch_queue,
                   cron_submissions, applied_topdown_nonce, applied_bottomup_nonce,
                   subnets, total_subnets, postbox, nonce, checkpoints, children,
                   bottomup_nonce, bottomup_msg_meta, overflow_checks>>

NextClass == Classify

ClassSpec == InitClass /\ [][NextClass]_vars

(***************************************************************************)
(* Properties.  A SubmitCron call on the current state is taken apart into *)
(* its steps, so that a property can speak of every call every reachable   *)
(* state admits.                                                           *)
(***************************************************************************)
\* the trigger step of a call on the current state
Trigger == execute_next_cron_epoch(State)

\* the validation step, on the state the trigger leaves
Validated(caller, epoch) == validate_submitter(Trigger.st, epoch, caller)

\* the voting step, for a call the validation let through
Handled(caller, epoch, msgs) ==
    handle_cron_submission(Trigger.st, CronCheckpoint(epoch, msgs), caller,
                           Unwrap(Validated(caller, epoch).weight))

\* the whole call
Call(caller, epoch, msgs) == submit_cron(State, caller, CronCheckpoint(epoch, msgs))

\* C1: cron epochs are executed strictly in order.  Every change of
\* last_cron_executed_epoch sets it to its previous value plus cron_period: the
\* queue-drain path (execute_next_cron_epoch) and the direct path
\* (handle_cron_submission) each leave it alone or advance it by one period, so
\* the epochs a call executes are the consecutive ones after the last executed.
C1_EpochsInOrder ==
    /\ pop_next_cron_epoch(State).st.last_cron_executed_epoch
           \in {last_cron_executed_epoch, last_cron_executed_epoch + cron_period}
    /\ Trigger.epoch # None =>
           /\ Unwrap(Trigger.epoch) = last_cron_executed_epoch + cron_period
           /\ Trigger.st.last_cron_executed_epoch = Unwrap(Trigger.epoch)
    /\ Trigger.epoch = None =>
           Trigger.st.last_cron_executed_epoch = last_cron_executed_epoch
    /\ \A caller \in Addrs, epoch \in Epochs, msgs \in TopDownMsgLists :
          /\ (Trigger.err = "ok" /\ Validated(caller, epoch).err = "ok") =>
                LET h == Handled(caller, epoch, msgs)
                IN /\ h.st.last_cron_executed_epoch
                          \in {Trigger.st.last_cron_executed_epoch,
                               Trigger.st.last_cron_executed_epoch + cron_period}
                   /\ h.st.last_cron_executed_epoch
                          # Trigger.st.last_cron_executed_epoch =>
                             h.st.last_cron_executed_epoch = epoch
          /\ LET r == Call(caller, epoch, msgs)
             IN /\ r.st.last_cron_executed_epoch
                       = last_cron_executed_epoch + Len(r.executed) * cron_period
                /\ \A i \in 1..Len(r.executed) :
                       r.executed[i] = last_cron_executed_epoch + i * cron_period

\* a call that executes one epoch from the queue and one directly
C1_BothPathsExecute ==
    \E caller \in Addrs, epoch \in Epochs, msgs \in TopDownMsgLists :
        LET r == Call(caller, epoch, msgs)
        IN r.err = "ok" /\ Len(r.executed) = 2 /\ Trigger.epoch # None

\* the record a vote is added to, and the record with the vote added
Record(st, epoch) ==
    IF epoch \in DOMAIN st.cron_submissions THEN st.cron_submissions[epoch]
    ELSE NewCronSubmission

Voted(caller, epoch, msgs) ==
    submit(Record(Trigger.st, epoch), caller,
           Unwrap(Validated(caller, epoch).weight), CronCheckpoint(epoch, msgs)).sub

\* the messages of the checkpoint whose hash has the largest accumulated weight
MostVotedMsgs(sub) ==
    LET h == CHOOSE h \in DOMAIN sub.submission_counts :
                 \A g \in DOMAIN sub.submission_counts :
                     sub.submission_counts[g] <= sub.submission_counts[h]
    IN sub.submissions[h].top_down_msgs

\* C2: when a vote makes the tally of epoch e ConsensusReached and e is
\* last_cron_executed_epoch + cron_period, the same call sets
\* last_cron_executed_epoch to e, deletes the record of e and dispatches the
\* top_down_msgs of the most voted checkpoint, in list order, through
\* apply_msg_inner; a vote that does not reach consensus leaves
\* last_cron_executed_epoch as it was.
C2_ConsensusExecutes ==
    \A caller \in RoundAddrs, epoch \in RoundEpochs, msgs \in RoundMsgLists :
        LET r == Call(caller, epoch, msgs)
        IN r.err = "ok" =>
              IF r.status = "ConsensusReached"
                    /\ epoch = Trigger.st.last_cron_executed_epoch + cron_period
              THEN /\ r.st.last_cron_executed_epoch = epoch
                   /\ epoch \notin DOMAIN r.st.cron_submissions
                   /\ r.sent = Trigger.sent \o MostVotedMsgs(Voted(caller, epoch, msgs))
                   /\ r.st.applied_topdown_nonce = applied_topdown_nonce + Len(r.sent)
                   /\ \A i \in 1..Len(r.sent) : r.sent[i] = applied_topdown_nonce + i - 1
              ELSE /\ r.st.last_cron_executed_epoch
                          = Trigger.st.last_cron_executed_epoch
                   /\ r.sent = Trigger.sent

\* a vote that reaches consensus on a checkpoint with two messages, in a round
\* in which another checkpoint has votes too
C2_ConsensusOnContestedRound ==
    \E caller \in RoundAddrs, epoch \in RoundEpochs, msgs \in RoundMsgLists :
        LET r == Call(caller, epoch, msgs)
        IN /\ r.err = "ok" /\ r.status = "ConsensusReached"
           /\ epoch = Trigger.st.last_cron_executed_epoch + cron_period
           /\ Len(r.sent) = 2
           /\ Cardinality(DOMAIN Voted(caller, epoch, msgs).submission_counts) >= 2

\* C3: consensus for an epoch e that is not last_cron_executed_epoch +
\* cron_period is deferred: e is inserted into executable_epoch_queue, the
\* submission of e stays persisted (a record from which the most voted
\* checkpoint can be loaded), last_cron_executed_epoch is unchanged and nothing
\* is dispatched.
C3_DeferredKeepsSubmission ==
    \A caller \in Addrs, epoch \in Epochs, msgs \in TopDownMsgLists :
        LET r == Call(caller, epoch, msgs)
        IN (/\ r.err = "ok" /\ r.status = "ConsensusReached"
            /\ epoch # Trigger.st.last_cron_executed_epoch + cron_period) =>
              /\ r.st.executable_epoch_queue # None
              /\ epoch \in Unwrap(r.st.executable_epoch_queue)
              /\ epoch \in DOMAIN r.st.cron_submissions
              /\ load_most_submitted_checkpoint(r.st.cron_submissions[epoch]) # None
              /\ r.st.last_cron_executed_epoch = Trigger.st.last_cron_executed_epoch
              /\ r.sent = Trigger.sent

\* a vote that reaches consensus on an epoch that is not the next one
C3_ConsensusOutOfOrder ==
    \E caller \in Addrs, epoch \in Epochs, msgs \in TopDownMsgLists :
        LET r == Call(caller, epoch, msgs)
        IN /\ r.err = "ok" /\ r.status = "ConsensusReached"
           /\ epoch # Trigger.st.last_cron_executed_epoch + cron_period

\* the head of the queue is the next epoch to execute
HeadIsNext ==
    /\ executable_epoch_queue # None
    /\ Unwrap(executable_epoch_queue) # {}
    /\ First(Unwrap(executable_epoch_queue)) = last_cron_executed_epoch + cron_period

\* C4: no epoch gets stuck.  When an epoch e of the queue is
\* last_cron_executed_epoch + cron_period, SubmitCron calls keep succeeding, and
\* every successful one, whoever calls and whatever epoch it votes on, executes
\* e: e leaves the queue, last_cron_executed_epoch reaches e, the messages of
\* its checkpoint are dispatched and its submission is deleted.
C4_QueuedEpochExecutes ==
    HeadIsNext =>
        LET e == First(Unwrap(executable_epoch_queue))
        IN /\ \E caller \in Addrs, epoch \in Epochs, msgs \in TopDownMsgLists :
                  Call(caller, epoch, msgs).err = "ok"
           /\ \A caller \in Addrs, epoch \in Epochs, msgs \in TopDownMsgLists :
                  LET r == Call(caller, epoch, msgs)
                  IN r.err = "ok" =>
                        /\ r.executed # << >> /\ Head(r.executed) = e
                        /\ r.st.executable_epoch_queue # None =>
                               e \notin Unwrap(r.st.executable_epoch_queue)
                        /\ r.st.last_cron_executed_epoch >= e
                        /\ e \notin DOMAIN r.st.cron_submissions

\* the next epoch to execute is at the head of the queue
C4_HeadIsNext == HeadIsNext

Threshold(total) == (total * RATIO_NUMERATOR) \div RATIO_DENOMINATOR

\* the status the formula assigns to total weight T, submitted weight S and
\* leader weight M
FormulaStatus(T, S, M) ==
    IF S <= Threshold(T) THEN "ThresholdNotReached"
    ELSE IF M > Threshold(T) THEN "ConsensusReached"
    ELSE IF Threshold(T) - M >= T - S THEN "RoundAbort"
    ELSE "ReachingConsensus"

\* C6: for every total validator weight T, submitted weight S and leader weight
\* M with M <= S <= T, derive_execution_status returns ThresholdNotReached if
\* S <= T*2/3 (integer division), otherwise ConsensusReached if M > T*2/3,
\* otherwise RoundAbort if T*2/3 - M >= T - S, otherwise ReachingConsensus.
C6_StatusFormula ==
    calc.status # "None" => calc.status = FormulaStatus(calc.T, calc.S, calc.M)

\* derive_execution_status was called with a total weight whose double does
\* not fit 16 bits
C6_LargeTotal == calc.status # "None" /\ calc.T * RATIO_NUMERATOR > U16_MAX

\* the hashes a validator can vote for in a round on an epoch
RoundHashes(epoch) ==
    { Unwrap(hash(CronCheckpoint(epoch, m)).hash) :
        m \in { l \in RoundMsgLists : hash(CronCheckpoint(epoch, l)).err = "ok" } }

\* the weight a record has accumulated for a hash
Tally(sub, h) ==
    IF h \in DOMAIN sub.submission_counts THEN sub.submission_counts[h] ELSE 0

\* some assignment of votes to the validators that have not voted yet gives
\* some hash an accumulated weight above the threshold
CanReachConsensus(sub, vs, epoch) ==
    LET rest == (DOMAIN vs) \ sub.submitters
    IN \E f \in [rest -> RoundHashes(epoch)] :
         \E h \in RoundHashes(epoch) :
            Tally(sub, h) + SumWeights(vs, { v \in rest : f[v] = h })
                > Threshold(total_weight(vs))

C8_AbortResets ==
    \A caller \in RoundAddrs, epoch \in RoundEpochs, msgs \in RoundMsgLists :
        LET r == Call(caller, epoch, msgs)
        IN (r.err = "ok" /\ r.status = "RoundAbort") =>
              /\ epoch \in DOMAIN r.st.cron_submissions
              /\ LET rec == r.st.cron_submissions[epoch]
                 IN /\ rec.submitters = {}
                    /\ rec.submission_counts = << >>
                    /\ rec.total_submissions = 0
                    /\ rec.most_voted_hash = None
                    /\ rec.submissions = Voted(caller, epoch, msgs).submissions
                    /\ DOMAIN Record(Trigger.st, epoch).submissions
                           \subseteq DOMAIN rec.submissions
                    /\ Unwrap(hash(CronCheckpoint(epoch, msgs)).hash)
                           \in DOMAIN rec.submissions
              /\ r.st.last_cron_executed_epoch = last_cron_executed_epoch
              /\ r.sent = << >>
              /\ \A v \in DOMAIN r.st.validators, again \in RoundMsgLists :
                    LET r2 == submit_cron(r.st, v, CronCheckpoint(epoch, again))
                    IN /\ r2.err # "already submitted"
                       /\ (/\ hash(CronCheckpoint(epoch, again)).err = "ok"
                           /\ execute_next_cron_epoch(r.st).err = "ok") =>
                             /\ r2.err = "ok"
                             /\ v \in Record(r2.st, epoch).submitters
                                    \/ r2.status = "ConsensusReached"

\* an aborted round: the record holds checkpoints and no submitter
C8_AbortedRecord ==
    \E epoch \in DOMAIN cron_submissions :
        /\ cron_submissions[epoch].submitters = {}
        /\ Cardinality(DOMAIN cron_submissions[epoch].submissions) >= 2

\* C9: a caller who has already submitted for an epoch is rejected: the call
\* fails, with 'already submitted' when the trigger and the validation of the
\* call raise no error before the vote, and the submitter set, the counts, the
\* total and the most voted hash (the whole state) stay as they were.
C9_NoDoubleVote ==
    \A caller \in Addrs, epoch \in Epochs, msgs \in TopDownMsgLists :
        (/\ epoch \in DOMAIN cron_submissions
         /\ caller \in cron_submissions[epoch].submitters) =>
            LET r == Call(caller, epoch, msgs)
            IN /\ r.err # "ok"
               /\ r.st = State
               /\ (Trigger.err = "ok" /\ Validated(caller, epoch).err = "ok") =>
                     r.err = "already submitted"
               /\ update_submitters(cron_submissions[epoch], caller, 1).sub
                     = cron_submissions[epoch]

\* a validator votes a second time on an epoch and is told 'already submitted'
C9_SecondVote ==
    \E caller \in Addrs, epoch \in Epochs, msgs \in TopDownMsgLists :
        /\ epoch \in DOMAIN cron_submissions
        /\ caller \in cron_submissions[epoch].submitters
        /\ Call(caller, epoch, msgs).err = "already submitted"

\* the errors of validate_submitter
ValidationErrors ==
    {"epoch not allowed", "epoch already executed", "caller not validator"}

\* C10: SubmitCron accepts a vote only if (epoch - genesis_epoch) is a multiple
\* of cron_period, epoch is beyond last_cron_executed_epoch (as the call reads
\* it, after its trigger step) and the caller is a validator; otherwise it
\* fails with 'epoch not allowed', 'epoch already executed', 'caller not
\* validator', tested in that order, and records no vote.
C10_ValidateSubmitter ==
    \A caller \in Addrs, epoch \in Epochs, msgs \in TopDownMsgLists :
        LET r == Call(caller, epoch, msgs)
            aligned   == (epoch - genesis_epoch) % cron_period = 0
            fresh     == epoch > Trigger.st.last_cron_executed_epoch
            validator == caller \in DOMAIN validators
        IN /\ r.err = "ok" =>
                 /\ aligned /\ validator
                 /\ epoch > last_cron_executed_epoch /\ fresh
           /\ Trigger.err = "ok" =>
                 /\ ~aligned => r.err = "epoch not allowed"
                 /\ (aligned /\ ~fresh) => r.err = "epoch already executed"
                 /\ (aligned /\ fresh /\ ~validator) => r.err = "caller not validator"
                 /\ (aligned /\ fresh /\ validator) => r.err \notin ValidationErrors
           /\ r.err \in ValidationErrors => r.st = State

\* a vote on an executed epoch, a vote on an epoch off the period and a vote of
\* a non-validator, each rejected, after an epoch has been executed
C10_Rejections ==
    /\ last_cron_executed_epoch > genesis_epoch
    /\ \E caller \in Addrs, msgs \in TopDownMsgLists :
          Call(caller, last_cron_executed_epoch, msgs).err = "epoch already executed"
    /\ \E caller \in Addrs, epoch \in Epochs, msgs \in TopDownMsgLists :
          Call(caller, epoch, msgs).err = "epoch not allowed"
    /\ \E caller \in Addrs, epoch \in Epochs, msgs \in TopDownMsgLists :
          Call(caller, epoch, msgs).err = "caller not validator"

\* the accounts of a record agree: the accumulated weights of the hashes add up
\* to the total, and the total is the weight of the validators in the
\* submitter set
Balanced(sub, vs) ==
    /\ DOMAIN sub.submission_counts \subseteq DOMAIN sub.submissions
    /\ SumWeights(sub.submission_counts, DOMAIN sub.submission_counts)
           = sub.total_submissions
    /\ sub.submitters \subseteq DOMAIN vs
    /\ SumWeights(vs, sub.submitters) = sub.total_submissions

\* C11: in every record of cron_submissions the accumulated weights of the
\* hashes add up to the total submitted weight, and the submitter set holds
\* exactly the validators whose votes that total counts; a vote keeps it so: it
\* adds the voter to the submitter set and the voter's weight to the total and
\* to the count of the one hash voted for.
C11_TallyBalanced ==
    /\ \A e \in DOMAIN cron_submissions : Balanced(cron_submissions[e], validators)
    /\ \A caller \in RoundAddrs, epoch \in RoundEpochs, msgs \in RoundMsgLists :
          (/\ Trigger.err = "ok" /\ Validated(caller, epoch).err = "ok"
           /\ hash(CronCheckpoint(epoch, msgs)).err = "ok"
           /\ caller \notin Record(Trigger.st, epoch).submitters) =>
              LET old == Record(Trigger.st, epoch)
                  new == Voted(caller, epoch, msgs)
                  w   == Unwrap(Validated(caller, epoch).weight)
                  h   == Unwrap(hash(CronCheckpoint(epoch, msgs)).hash)
              IN /\ Balanced(new, validators)
                 /\ new.submitters = old.submitters \cup {caller}
                 /\ new.total_submissions = old.total_submissions + w
                 /\ Tally(new, h) = Tally(old, h) + w
                 /\ \A g \in DOMAIN new.submission_counts :
                       g # h => Tally(new, g) = Tally(old, g)

\* a stored record with votes of three validators on two checkpoints, one of
\* the voters of weight 2
C11_SplitRecord ==
    \E e \in DOMAIN cron_submissions :
        /\ Cardinality(cron_submissions[e].submitters) = 3
        /\ Cardinality(DOMAIN cron_submissions[e].submission_counts) = 2
        /\ cron_submissions[e].total_submissions = 4

\* C12: last_cron_executed_epoch is at most every epoch of
\* executable_epoch_queue; the queue is an ordered set (each epoch once, read
\* in increasing order) of cron epochs, and it is None, never an empty set,
\* when it has no element, also after every pop.
C12_QueueInvariant ==
    /\ executable_epoch_queue # None =>
          /\ Unwrap(executable_epoch_queue) # {}
          /\ Unwrap(executable_epoch_queue) \subseteq CronEpochs
          /\ \A e \in Unwrap(executable_epoch_queue) :
                /\ last_cron_executed_epoch <= e
                /\ First(Unwrap(executable_epoch_queue)) <= e
    /\ LET q == Trigger.st.executable_epoch_queue
       IN q # None =>
             /\ Unwrap(q) # {}
             /\ \A e \in Unwrap(q) : Trigger.st.last_cron_executed_epoch <= e

\* the trigger pops the only epoch of the queue
C12_QueueEmptied ==
    /\ executable_epoch_queue # None
    /\ Trigger.epoch # None
    /\ Trigger.st.executable_epoch_queue = None

\* C13: most_voted_hash names a hash of maximal accumulated weight; a vote
\* replaces the leader only by the hash voted for, and only when that hash's
\* weight becomes strictly greater than the leader's (on a tie the earlier
\* leader stays); the value the tally returns is the leader's accumulated
\* weight.
C13_LeaderIsMaximal ==
    /\ \A e \in DOMAIN cron_submissions :
          LET sub == cron_submissions[e]
          IN IF sub.submission_counts = << >>
             THEN sub.most_voted_hash = None
             ELSE /\ IsSome(sub.most_voted_hash)
                  /\ Unwrap(sub.most_voted_hash) \in DOMAIN sub.submission_counts
                  /\ \A g \in DOMAIN sub.submission_counts :
                        Tally(sub, g) <= Tally(sub, Unwrap(sub.most_voted_hash))
    /\ \A caller \in RoundAddrs, epoch \in RoundEpochs, msgs \in RoundMsgLists :
          (/\ Trigger.err = "ok" /\ Validated(caller, epoch).err = "ok"
           /\ hash(CronCheckpoint(epoch, msgs)).err = "ok"
           /\ caller \notin Record(Trigger.st, epoch).submitters) =>
              LET old == Record(Trigger.st, epoch)
                  w   == Unwrap(Validated(caller, epoch).weight)
                  ck  == CronCheckpoint(epoch, msgs)
                  h   == Unwrap(hash(ck).hash)
                  new == Voted(caller, epoch, msgs)
                  ret == submit(old, caller, w, ck).most
              IN /\ IsSome(new.most_voted_hash)
                 /\ ret = Tally(new, Unwrap(new.most_voted_hash))
                 /\ \A g \in DOMAIN new.submission_counts : Tally(new, g) <= ret
                 /\ old.most_voted_hash = None => new.most_voted_hash = Some(h)
                 /\ (IsSome(old.most_voted_hash)
                       /\ new.most_voted_hash # old.most_voted_hash) =>
                        /\ new.most_voted_hash = Some(h)
                        /\ Tally(new, h) > Tally(new, Unwrap(old.most_voted_hash))
                 /\ (IsSome(old.most_voted_hash)
                       /\ Tally(new, h) <= Tally(new, Unwrap(old.most_voted_hash))) =>
                        new.most_voted_hash = old.most_voted_hash

\* a vote that brings another hash level with the leader and leaves the
\* leader in place, and a vote that overtakes the leader
C13_TieAndOvertake ==
    /\ \E caller \in RoundAddrs, epoch \in RoundEpochs, msgs \in RoundMsgLists :
          /\ Call(caller, epoch, msgs).err = "ok"
          /\ IsSome(Record(State, epoch).most_voted_hash)
          /\ LET h   == Unwrap(hash(CronCheckpoint(epoch, msgs)).hash)
                 old == Unwrap(Record(State, epoch).most_voted_hash)
                 new == Voted(caller, epoch, msgs)
             IN /\ h # old
                /\ Tally(new, h) = Tally(new, old)
                /\ new.most_voted_hash = Some(old)
    /\ \E caller \in RoundAddrs, epoch \in RoundEpochs, msgs \in RoundMsgLists :
          /\ Call(caller, epoch, msgs).err = "ok"
          /\ IsSome(Record(State, epoch).most_voted_hash)
          /\ LET h   == Unwrap(hash(CronCheckpoint(epoch, msgs)).hash)
                 old == Unwrap(Record(State, epoch).most_voted_hash)
                 new == Voted(caller, epoch, msgs)
             IN /\ h # old
                /\ Tally(new, h) > Tally(new, old)
                /\ new.most_voted_hash = Some(h)

\* the errors of CronCheckpoint::hash
HashErrors == {"top down messages not distinct", "top down messages not sorted"}

\* the nonces of a message list are strictly ascending
StrictlyAscending(msgs) ==
    \A i \in 1..(Len(msgs) - 1) : msgs[i] < msgs[i + 1]

AnyMsgs ==
    { StorableMsg(IPCAddress(f, 1), IPCAddress(t, 2), v, n) :
        f \in SubnetIDs, t \in SubnetIDs, v \in {CROSS_MSG_FEE + 50},
        n \in MsgNonces \cup {MaxApplied + 1} }

\* the balances of the gateway an ApplyMessage may see
Balances == {0, CROSS_MSG_FEE + 50}

\* the results of every call of an operation other than ApplyMessage, with the
\* name of the operation
OtherCalls ==
    { [op |-> "Register", r |-> register(State, a, v)] :
        a \in SubnetActors, v \in {min_stake - 1, min_stake} }
    \cup { [op |-> "Fund", r |-> fund(State, 1, b, d, v)] :
             b \in BOOLEAN, d \in SubnetIDs, v \in Values }
    \cup { [op |-> "Release", r |-> release(State, 1, b, v, e)] :
             b \in BOOLEAN, v \in Values, e \in CurrEpochs }
    \cup { [op |-> "SendCross", r |-> send_cross(State, 1, b, d, 2, v, v, e)] :
             b \in BOOLEAN, d \in SubnetIDs, v \in Values, e \in CurrEpochs }
    \cup { [op |-> "WhiteListPropagator", r |-> whitelist_propagator(State, a, c, <<2>>)] :
             a \in Addrs, c \in PostboxCids }
    \cup { [op |-> "Propagate", r |-> propagate(State, a, c, v, e)] :
             a \in Addrs, c \in PostboxCids, v \in Values, e \in CurrEpochs }
    \cup { [op |-> "SetMembership",
            r |-> [err |-> "ok", st |-> set_membership(State, vs),
                   sent |-> << >>, ret |-> None]] :
             vs \in ValidatorSets }

\* C15: applied_topdown_nonce never decreases and changes only in the
\* top-down branch of ApplyMessage: SendCross, Propagate, Fund, Release,
\* Register, WhiteListPropagator and SetMembership leave it as it is, and so
\* does an ApplyMessage of a bottom-up message.
C15_TopDownNonceFrame ==
    /\ \A c \in OtherCalls :
          c.r.st.applied_topdown_nonce = applied_topdown_nonce
    /\ \A msg \in AnyMsgs, current_balance \in Balances :
          LET r == apply_msg(State, msg, current_balance)
          IN /\ r.st.applied_topdown_nonce >= applied_topdown_nonce
             /\ apply_type(msg, network_name) = "BottomUp" =>
                   r.st.applied_topdown_nonce = applied_topdown_nonce

\* a child subnet is registered and a SendCross down to it succeeds
C15_SendCrossDown ==
    \E d \in DOMAIN subnets, v \in Values, e \in CurrEpochs :
        send_cross(State, 1, FALSE, d, 2, v, v, e).err = "ok"

\* C16: every top-down message ApplyMessage accepts, for this subnet or for a
\* descendant, has the nonce applied_topdown_nonce and increments
\* applied_topdown_nonce by one; a top-down message with any other nonce is
\* rejected and changes nothing.
C16_TopDownInOrder ==
    \A msg \in AnyMsgs, current_balance \in Balances :
        apply_type(msg, network_name) = "TopDown" =>
            LET r == apply_msg(State, msg, current_balance)
            IN /\ r.err = "ok" =>
                     /\ msg.nonce = applied_topdown_nonce
                     /\ r.st.applied_topdown_nonce = applied_topdown_nonce + 1
               /\ msg.nonce # applied_topdown_nonce =>
                     /\ r.err = "the top-down message being applied doesn't hold the subsequent nonce"
                           \/ r.err = "not enough balance to mint new tokens as part of the cross-message"
                     /\ r.st = State

\* a top-down message for a descendant, with a nonce that is not the next one,
\* is accepted into the postbox after a top-down message was applied
C16_DescendantOutOfOrder ==
    /\ applied_topdown_nonce = 1
    /\ \E msg \in AnyMsgs :
          /\ apply_type(msg, network_name) = "TopDown"
          /\ msg.to.subnet_id # network_name
          /\ msg.nonce # applied_topdown_nonce
          /\ apply_msg(State, msg, msg.value).err = "ok"
          /\ apply_msg(State, msg, msg.value).st.applied_topdown_nonce
                = applied_topdown_nonce

\* the messages ApplyMessage classifies as bottom-up and for this subnet
LocalBottomUp ==
    { msg \in AnyMsgs : /\ apply_type(msg, network_name) = "BottomUp"
                        /\ msg.to.subnet_id = network_name }

\* the u64 order on nonces
U64Less(a, b) == IF (a < 0) = (b < 0) THEN a < b ELSE b < 0

\* C17 as stated, for the messages for this subnet: every bottom-up message
\* ApplyMessage accepts has the nonce applied_bottomup_nonce + 1 (or 0 while applied_bottomup_nonce is MAX) and
\* advances applied_bottomup_nonce by one; any other nonce is rejected and
\* leaves applied_bottomup_nonce unchanged.
C17_BottomUpNextOnly ==
    \A msg \in LocalBottomUp, current_balance \in Balances :
        LET r == apply_msg(State, msg, current_balance)
            next == wrapping_add(applied_bottomup_nonce, 1)
        IN /\ r.err = "ok" =>
                 /\ msg.nonce = next
                 /\ r.st.applied_bottomup_nonce = next
           /\ msg.nonce # next =>
                 /\ r.err # "ok"
                 /\ r.st.applied_bottomup_nonce = applied_bottomup_nonce

\* C17: every bottom-up message for this subnet that ApplyMessage accepts has
\* the nonce applied_bottomup_nonce, which leaves the counter as it is, or
\* applied_bottomup_nonce + 1 (0 while the counter is MAX), which advances it
\* by one; both are accepted; any other nonce is rejected and changes nothing.
C17_BottomUpSameOrNext ==
    \A msg \in LocalBottomUp, current_balance \in Balances :
        LET r == apply_msg(State, msg, current_balance)
            next == wrapping_add(applied_bottomup_nonce, 1)
        IN /\ r.err = "ok" <=> msg.nonce \in {applied_bottomup_nonce, next}
           /\ r.err = "ok" => r.st.applied_bottomup_nonce = msg.nonce
           /\ r.err # "ok" => r.st = State

\* bottom-up messages were applied with the nonces 0 and 1
C17_BottomUpApplied ==
    /\ applied_bottomup_nonce = 1
    /\ \E msg \in LocalBottomUp :
          /\ msg.nonce = applied_bottomup_nonce
          /\ apply_msg(State, msg, 0).err = "ok"

\* C18: several bottom-up messages may share one nonce.  ApplyMessage accepts
\* a bottom-up message for this subnet with the nonce applied_bottomup_nonce,
\* dispatching it and leaving the counter, and one with the nonce
\* applied_bottomup_nonce + 1, advancing the counter; it rejects, with the
\* error of the nonce and no change, a nonce below the counter (but for 0
\* while the counter is MAX) or more than one above it.
C18_SharedNonce ==
    \A msg \in LocalBottomUp, current_balance \in Balances :
        LET r == apply_msg(State, msg, current_balance)
            next == wrapping_add(applied_bottomup_nonce, 1)
        IN /\ msg.nonce = applied_bottomup_nonce =>
                 /\ r.err = "ok"
                 /\ r.st = State
                 /\ r.sent = <<Send(msg, msg.to.raw_address)>>
           /\ msg.nonce = next =>
                 /\ r.err = "ok"
                 /\ r.st = [State EXCEPT !.applied_bottomup_nonce = next]
           /\ (\/ (U64Less(msg.nonce, applied_bottomup_nonce) /\ msg.nonce # next)
               \/ U64Less(next, msg.nonce) /\ U64Less(applied_bottomup_nonce, next)) =>
                 /\ r.err = "the bottom-up message being applied doesn't hold the subsequent nonce"
                 /\ r.st = State
                 /\ r.sent = << >>

\* after the nonces 0 and 1, a bottom-up message is accepted again with nonce
\* 1 and rejected with nonce 0 and with nonce 3
C18_RepeatedAndRejected ==
    /\ applied_bottomup_nonce = 1
    /\ \E f \in SubnetIDs :
          LET m(n) == StorableMsg(IPCAddress(f, 1), IPCAddress(network_name, 2),
                                  CROSS_MSG_FEE + 50, n)
          IN /\ m(1) \in LocalBottomUp
             /\ apply_msg(State, m(1), 0).err = "ok"
             /\ apply_msg(State, m(0), 0).err # "ok"
             /\ apply_msg(State, m(3), 0).err # "ok"

\* C19: ApplyMessage routes by destination.  An accepted message for this
\* subnet is dispatched to its raw destination address and the postbox stays
\* as it is; an accepted message for another subnet is not dispatched: it is
\* in the postbox under the key returned, with the owners <<m.from.raw>> and
\* with the to, value and nonce it came with, and the postbox has no other new
\* entry.
C19_RoutesByDestination ==
    \A msg \in AnyMsgs, current_balance \in Balances :
        LET r == apply_msg(State, msg, current_balance)
        IN r.err = "ok" =>
              IF msg.to.subnet_id = network_name
              THEN /\ r.sent = <<[to |-> msg.to.raw_address, value |-> msg.value]>>
                   /\ r.st.postbox = postbox
                   /\ r.ret = None
              ELSE /\ r.sent = << >>
                   /\ IsSome(r.ret)
                   /\ DOMAIN r.st.postbox = (DOMAIN postbox) \cup {Unwrap(r.ret)}
                   /\ \A c \in DOMAIN postbox : r.st.postbox[c] = postbox[c]
                   /\ r.st.postbox[Unwrap(r.ret)].owners = Some(<<msg.from.raw_address>>)
                   /\ r.st.postbox[Unwrap(r.ret)].cross_msg.to = msg.to
                   /\ r.st.postbox[Unwrap(r.ret)].cross_msg.value = msg.value
                   /\ r.st.postbox[Unwrap(r.ret)].cross_msg.nonce = msg.nonce
                   /\ r.st.applied_topdown_nonce = applied_topdown_nonce
                   /\ r.st.applied_bottomup_nonce = applied_bottomup_nonce

\* with an entry in the postbox, a message for this subnet is dispatched and a
\* message for another subnet becomes a second entry
C19_DispatchedAndPosted ==
    /\ postbox # << >>
    /\ \E msg \in AnyMsgs :
          /\ msg.to.subnet_id = network_name
          /\ apply_msg(State, msg, msg.value).err = "ok"
    /\ \E msg \in AnyMsgs :
          /\ msg.to.subnet_id # network_name
          /\ apply_msg(State, msg, msg.value).err = "ok"
          /\ Cardinality(DOMAIN apply_msg(State, msg, msg.value).st.postbox) = 2

\* the queue of a subnet holds nonce messages, the i-th with nonce i - 1
Dense(sub) ==
    /\ Len(sub.top_down_msgs) = sub.nonce
    /\ \A i \in 1..Len(sub.top_down_msgs) : sub.top_down_msgs[i].nonce = i - 1

\* between two subnet maps, one subnet got one message more, its nonce one
\* higher and its circ_supply higher by the value of the message, and the
\* others stayed
OneCommitted(old, new) ==
    /\ DOMAIN new = DOMAIN old
    /\ \E id \in DOMAIN old :
          /\ \A other \in (DOMAIN old) \ {id} : new[other] = old[other]
          /\ Len(new[id].top_down_msgs) = Len(old[id].top_down_msgs) + 1
          /\ SubSeq(new[id].top_down_msgs, 1, Len(old[id].top_down_msgs))
                = old[id].top_down_msgs
          /\ new[id].nonce = old[id].nonce + 1
          /\ new[id].circ_supply = old[id].circ_supply
                + new[id].top_down_msgs[Len(new[id].top_down_msgs)].value
          /\ new[id] = [old[id] EXCEPT !.top_down_msgs = new[id].top_down_msgs,
                                       !.nonce = new[id].nonce,
                                       !.circ_supply = new[id].circ_supply]

\* C20: for every registered subnet the top-down queue holds exactly nonce
\* messages and the message at index i carries nonce i; every successful Fund
\* commits one message top-down, and every successful SendCross or Propagate
\* commits one message, top-down or bottom-up: a top-down commit appends one
\* message to the queue of one child, increments that child's nonce by one and
\* raises its circ_supply by the value of the message, and leaves the other
\* subnets alone; no other operation touches a queue.
C20_TopDownQueueDense ==
    /\ \A id \in DOMAIN subnets : Dense(subnets[id])
    /\ \A c \in OtherCalls :
          c.r.err = "ok" =>
             /\ \A id \in DOMAIN c.r.st.subnets : Dense(c.r.st.subnets[id])
             /\ c.op = "Fund" => OneCommitted(subnets, c.r.st.subnets)
             /\ c.op \in {"SendCross", "Propagate"} =>
                   \/ OneCommitted(subnets, c.r.st.subnets) /\ c.r.st.nonce = nonce
                   \/ c.r.st.subnets = subnets /\ c.r.st.nonce = nonce + 1
             /\ c.op \in {"Release", "WhiteListPropagator", "SetMembership"} =>
                   c.r.st.subnets = subnets
    /\ \A msg \in AnyMsgs, current_balance \in Balances :
          apply_msg(State, msg, current_balance).st.subnets = subnets

\* a child holds two messages of two senders, and a third can be committed
C20_QueueOfTwo ==
    /\ \E id \in DOMAIN subnets :
          /\ subnets[id].nonce = 2
          /\ subnets[id].top_down_msgs[1].from # subnets[id].top_down_msgs[2].from
    /\ \E c \in OtherCalls :
          c.op = "Fund" /\ c.r.err = "ok"

(***************************************************************************)
(* Properties of Fund, of the fee and of the direction of a message.       *)
(***************************************************************************)
\* the destinations a Fund is given: the subnets of the tree and a subnet
\* below the sibling
FundDests == SubnetIDs \cup {<<2, 1>>}

\* what a Fund is sent along: nothing, less than the fee, the fee, more
FundValues == {0, CROSS_MSG_FEE - 1, CROSS_MSG_FEE, CROSS_MSG_FEE + 50}

\* the child of this subnet on the way to dest is registered
NextHopRegistered(dest) ==
    /\ down(dest, network_name) # None
    /\ Unwrap(down(dest, network_name)) \in DOMAIN subnets

\* C21: a successful Fund(dest) with value_received v appends one message of
\* value v - CROSS_MSG_FEE to the top-down queue of the registered next-hop
\* child towards dest, adds one to that child's nonce and v - CROSS_MSG_FEE to
\* its circ_supply, leaves the other subnets alone and sends CROSS_MSG_FEE to
\* the subnet actor of dest; a Fund with v <= 0, with v below the fee or
\* towards a child that is not registered fails and changes nothing.
C21_FundCommitsValueLessFee ==
    \A signable \in BOOLEAN, dest \in FundDests, v \in FundValues :
        LET r == fund(State, 1, signable, dest, v)
            hop == Unwrap(down(dest, network_name))
        IN /\ r.err = "ok" =>
                 /\ NextHopRegistered(dest)
                 /\ DOMAIN r.st.subnets = DOMAIN subnets
                 /\ \A other \in (DOMAIN subnets) \ {hop} :
                       r.st.subnets[other] = subnets[other]
                 /\ r.st.subnets[hop].top_down_msgs =
                       Append(subnets[hop].top_down_msgs,
                              StorableMsg(IPCAddress(Unwrap(parent(dest)), 1),
                                          IPCAddress(dest, 1),
                                          v - CROSS_MSG_FEE, subnets[hop].nonce))
                 /\ r.st.subnets[hop].nonce = subnets[hop].nonce + 1
                 /\ r.st.subnets[hop].circ_supply
                       = subnets[hop].circ_supply + (v - CROSS_MSG_FEE)
                 /\ r.st = [State EXCEPT !.subnets = r.st.subnets]
                 /\ r.sent = <<[to |-> subnet_actor(dest), value |-> CROSS_MSG_FEE]>>
           /\ (v <= 0 \/ v < CROSS_MSG_FEE \/ ~NextHopRegistered(dest)) =>
                 /\ r.err # "ok"
                 /\ r.st = State
                 /\ r.sent = << >>
           /\ (signable /\ v >= CROSS_MSG_FEE /\ NextHopRegistered(dest)) =>
                 r.err = "ok"

\* a child holds a message, a Fund for the grandchild goes through it, and a
\* Fund for the other child, which is not registered, fails
C21_FundThroughChild ==
    /\ <<1, 1>> \in DOMAIN subnets
    /\ <<1, 2>> \notin DOMAIN subnets
    /\ subnets[<<1, 1>>].nonce = 1
    /\ fund(State, 1, TRUE, <<1, 1, 1>>, CROSS_MSG_FEE + 50).err = "ok"
    /\ fund(State, 1, TRUE, <<1, 2>>, CROSS_MSG_FEE + 50).err # "ok"

\* the messages a call committed: those at the end of a queue or of a
\* checkpoint that grew
NewlyCommitted(st) ==
    { st.subnets[id].top_down_msgs[Len(st.subnets[id].top_down_msgs)] :
        id \in { i \in DOMAIN st.subnets :
                    /\ i \in DOMAIN subnets
                    /\ Len(st.subnets[i].top_down_msgs)
                          > Len(subnets[i].top_down_msgs) } }
    \cup
    { st.checkpoints[e][Len(st.checkpoints[e])] :
        e \in { x \in DOMAIN st.checkpoints :
                   \/ x \notin DOMAIN checkpoints
                   \/ Len(st.checkpoints[x]) > Len(checkpoints[x]) } }

\* the calls of Fund, Release and SendCross by a caller of the type the
\* operation admits, each with what it was sent along
FeeCalls ==
    { [op |-> "Fund", v |-> v, r |-> fund(State, 1, TRUE, d, v)] :
        d \in FundDests, v \in FundValues }
    \cup { [op |-> "Release", v |-> v, r |-> release(State, 1, TRUE, v, e)] :
             v \in FundValues, e \in CurrEpochs }
    \cup { [op |-> "SendCross", v |-> v,
            r |-> send_cross(State, 1, FALSE, d, 2, v, v, e)] :
             d \in FundDests \ {network_name}, v \in FundValues,
             e \in CurrEpochs }

\* the calls of Propagate on a stored key by a caller that may propagate it,
\* each with what it was sent along, its caller, and the same call sent along
\* the fee and no more
PropagateCalls ==
    UNION { { [v |-> v, caller |-> a, r |-> propagate(State, a, c, v, e),
               exact |-> propagate(State, a, c, CROSS_MSG_FEE, e)] :
                c \in { k \in DOMAIN postbox :
                          propagate(State, a, k, CROSS_MSG_FEE, e).err
                              # "owner not match" },
                v \in FundValues } :
            a \in Addrs, e \in CurrEpochs }

\* C22 as stated: with the value below the fee, each of the operations fails
\* with illegal state.
C22_ShortIsIllegalState ==
    /\ \A c \in FeeCalls :
          c.v < CROSS_MSG_FEE => exit_code(c.r.err) = "USR_ILLEGAL_STATE"
    /\ \A c \in PropagateCalls :
          c.v < CROSS_MSG_FEE => exit_code(c.r.err) = "USR_ILLEGAL_STATE"

\* C22: fee conservation.  A successful Fund, Release or SendCross commits
\* one message, whose value plus CROSS_MSG_FEE is value_received.  A
\* successful Propagate commits the stored message; sent along more than the
\* fee it does what it does with the fee alone and then sends value_received
\* less CROSS_MSG_FEE back to its caller, in one last transfer.  With less
\* than the fee every one of them fails and changes nothing: with the illegal
\* state of collect_cross_fee, but for a Fund or a Release sent along
\* nothing, which fails before with an illegal argument.
C22_FeeConservation ==
    /\ \A c \in FeeCalls :
          /\ c.r.err = "ok" =>
                /\ Cardinality(NewlyCommitted(c.r.st)) = 1
                /\ \A m \in NewlyCommitted(c.r.st) :
                      c.v = m.value + CROSS_MSG_FEE
          /\ c.v < CROSS_MSG_FEE =>
                /\ c.r.st = State
                /\ c.r.sent = << >>
                /\ IF c.v <= 0 /\ c.op \in {"Fund", "Release"}
                   THEN exit_code(c.r.err) = "USR_ILLEGAL_ARGUMENT"
                   ELSE /\ c.r.err = "not enough gas to pay cross-message"
                        /\ exit_code(c.r.err) = "USR_ILLEGAL_STATE"
          /\ c.r.err = "not enough gas to pay cross-message" => c.v < CROSS_MSG_FEE
    /\ \A c \in PropagateCalls :
          /\ c.r.err = "ok" =>
                /\ Cardinality(NewlyCommitted(c.r.st)) = 1
                /\ c.exact.err = "ok"
                /\ c.r.st = c.exact.st
                /\ c.r.sent = c.exact.sent
                      \o (IF c.v = CROSS_MSG_FEE THEN << >>
                          ELSE <<[to |-> c.caller, value |-> c.v - CROSS_MSG_FEE]>>)
          /\ c.v < CROSS_MSG_FEE =>
                /\ c.r.st = State
                /\ c.r.sent = << >>
                /\ c.r.err = "not enough gas to pay cross-message"
                /\ exit_code(c.r.err) = "USR_ILLEGAL_STATE"
          /\ c.r.err = "not enough gas to pay cross-message" => c.v < CROSS_MSG_FEE

\* a message waits in the postbox and its owner can propagate it with more
\* than the fee, with the fee, and not with less; a Release with the fee goes
\* through as well
C22_FeePaidAndShort ==
    \E c \in DOMAIN postbox, a \in Addrs, e \in CurrEpochs :
        /\ propagate(State, a, c, CROSS_MSG_FEE + 50, e).err = "ok"
        /\ propagate(State, a, c, CROSS_MSG_FEE, e).err = "ok"
        /\ propagate(State, a, c, CROSS_MSG_FEE - 1, e).err
              = "not enough gas to pay cross-message"
        /\ release(State, 1, TRUE, CROSS_MSG_FEE, e).err = "ok"
        /\ release(State, 1, TRUE, 0, e).err = "no funds included in message"
        /\ fund(State, 1, TRUE, <<1, 1>>, 0).err = "no funds included in fund message"

\* the messages of every route over the tree, of value nothing and more
RoutedMsgs ==
    { StorableMsg(IPCAddress(f, 1), IPCAddress(t, 2), v, n) :
        f \in SubnetIDs, t \in SubnetIDs, v \in {0, CROSS_MSG_FEE + 50},
        n \in {0, 1} }

\* the messages this gateway classifies as bottom-up and has to pass on
PassingBottomUp ==
    { m \in RoutedMsgs \cup { postbox[c].cross_msg : c \in DOMAIN postbox } :
        /\ apply_type(m, network_name) = "BottomUp"
        /\ m.to.subnet_id # network_name }

\* this subnet is the lowest common ancestor of the ends of m
AtCommonParent(m) ==
    common_parent(m.to.subnet_id, m.from.subnet_id) = network_name

\* the state after m is committed top-down to the child hop
CommittedDown(m, hop) ==
    [State EXCEPT !.subnets[hop] =
        [@ EXCEPT !.top_down_msgs = Append(@, [m EXCEPT !.nonce = subnets[hop].nonce]),
                  !.nonce = @ + 1,
                  !.circ_supply = @ + m.value]]

\* the state after m is committed bottom-up in the window of epoch e
CommittedUp(m, e) ==
    [State EXCEPT
        !.checkpoints =
            (checkpoint_epoch(e, check_period) :>
                Append(IF checkpoint_epoch(e, check_period) \in DOMAIN checkpoints
                       THEN checkpoints[checkpoint_epoch(e, check_period)]
                       ELSE << >>, m)) @@ @,
        !.nonce = @ + 1]

\* C23: a bottom-up message switches direction at the lowest common
\* ancestor.  Committed at the gateway of the lowest common ancestor of its
\* ends, a message classified bottom-up goes top-down to the registered child
\* to.down(S): it is stored with the child's nonce, the child's nonce grows by
\* one and its circ_supply by the value, the fee is flagged for distribution,
\* no burn is flagged, and the bottom-up nonce, the checkpoints and the rest
\* of the state stay; with that child not registered the commit fails.  At
\* a gateway below the common ancestor the message joins the window
\* checkpoint, the bottom-up nonce grows by one, and the value, when there is
\* one, is flagged to be burnt and no fee to be distributed.  Propagate and
\* SendCross commit their message so and send what was flagged.
C23_SwitchAtCommonParent ==
    /\ \A m \in PassingBottomUp, e \in CurrEpochs :
          LET r == commit_cross_message(State, m, CROSS_MSG_FEE, e)
              hop == Unwrap(down(m.to.subnet_id, network_name))
          IN IF AtCommonParent(m)
             THEN /\ r.err = "ok" <=> NextHopRegistered(m.to.subnet_id)
                  /\ r.err = "ok" =>
                        /\ r.st = CommittedDown(m, hop)
                        /\ r.top_down_fee = CROSS_MSG_FEE
                        /\ ~r.do_burn
                  /\ r.err # "ok" => r.st = State
             ELSE /\ r.err = "ok"
                  /\ r.st = CommittedUp(m, e)
                  /\ r.top_down_fee = 0
                  /\ r.do_burn <=> m.value > 0
    /\ \A c \in DOMAIN postbox, a \in Addrs, e \in CurrEpochs :
          LET m == postbox[c].cross_msg
              r == propagate(State, a, c, CROSS_MSG_FEE, e)
              hop == Unwrap(down(m.to.subnet_id, network_name))
          IN (m \in PassingBottomUp /\ r.err = "ok") =>
                IF AtCommonParent(m)
                THEN /\ r.st = remove_from_postbox(CommittedDown(m, hop), c)
                     /\ r.sent = <<[to |-> subnet_actor(hop), value |-> CROSS_MSG_FEE]>>
                ELSE /\ r.st = remove_from_postbox(CommittedUp(m, e), c)
                     /\ r.sent = IF m.value > 0
                                 THEN <<[to |-> BURNT_FUNDS_ACTOR_ADDR,
                                         value |-> m.value]>>
                                 ELSE << >>
    /\ \A d \in SubnetIDs, v \in FundValues, e \in CurrEpochs :
          LET m == StorableMsg(IPCAddress(network_name, 1), IPCAddress(d, 2),
                               v - CROSS_MSG_FEE, 0)
              r == send_cross(State, 1, FALSE, d, 2, v, v, e)
          IN (r.err = "ok" /\ m \in PassingBottomUp) =>
                /\ ~AtCommonParent(m)
                /\ r.st = CommittedUp(m, e)
                /\ r.sent = IF m.value > 0
                            THEN <<[to |-> BURNT_FUNDS_ACTOR_ADDR, value |-> m.value]>>
                            ELSE << >>

\* the postbox holds a message from one child for the other, which is
\* registered, and a message from a child for the root; the owner propagates
\* the first down and the second up
C23_DownAndUp ==
    /\ <<1, 2>> \in DOMAIN subnets
    /\ \E c1 \in DOMAIN postbox, c2 \in DOMAIN postbox, a \in Addrs :
          /\ postbox[c1].cross_msg.from.subnet_id = <<1, 1>>
          /\ postbox[c1].cross_msg.to.subnet_id = <<1, 2>>
          /\ postbox[c2].cross_msg.from.subnet_id = <<1, 1>>
          /\ postbox[c2].cross_msg.to.subnet_id = << >>
          /\ propagate(State, a, c1, CROSS_MSG_FEE, 10).err = "ok"
          /\ propagate(State, a, c2, CROSS_MSG_FEE, 10).err = "ok"

\* subnet a is subnet b or an ancestor of b
IsPrefix(a, b) == Len(a) <= Len(b) /\ SubSeq(b, 1, Len(a)) = a

\* the lowest common ancestor of two subnets: the ancestor of both that every
\* ancestor of both is an ancestor of
Lca(a, b) ==
    CHOOSE l \in TreeIDs :
        /\ IsPrefix(l, a) /\ IsPrefix(l, b)
        /\ \A k \in TreeIDs : (IsPrefix(k, a) /\ IsPrefix(k, b)) => IsPrefix(k, l)

\* C24: classification.  is_bottomup(from, to) holds exactly when from lies
\* strictly below the lowest common ancestor of from and to, that is when from
\* is neither to nor an ancestor of to; apply_type at the subnet curr is
\* BottomUp exactly when the common parent of curr and to is the common
\* parent of from and to and is_bottomup(from, to) holds, and TopDown
\* otherwise.  So a bottom-up message is BottomUp at every subnet on the way
\* from its source up to the lowest common ancestor, the ancestor included,
\* and TopDown at every subnet strictly below it on the way to the
\* destination; a message that is not bottom-up is TopDown everywhere.
C24_Classification ==
    calc.done =>
        /\ common_parent(calc.from, calc.to) = Lca(calc.from, calc.to)
        /\ calc.bottomup <=>
              Len(calc.from) > Len(Lca(calc.from, calc.to))
        /\ calc.bottomup <=> ~IsPrefix(calc.from, calc.to)
        /\ calc.type \in {"BottomUp", "TopDown"}
        /\ calc.type = "BottomUp" <=>
              /\ Lca(calc.curr, calc.to) = Lca(calc.from, calc.to)
              /\ calc.bottomup
        /\ (/\ calc.bottomup
            /\ IsPrefix(Lca(calc.from, calc.to), calc.curr)
            /\ IsPrefix(calc.curr, calc.from)) => calc.type = "BottomUp"
        /\ (/\ IsPrefix(calc.curr, calc.to)
            /\ Len(calc.curr) > Len(Lca(calc.from, calc.to))) =>
              calc.type = "TopDown"

\* a message between two grandchildren of different children, seen at the
\* subnet that is their lowest common ancestor
C24_AtCommonAncestor ==
    /\ calc.done
    /\ calc.from = <<1, 1, 2>>
    /\ calc.to = <<1, 2, 1>>
    /\ calc.curr = <<1>>
    /\ calc.bottomup
    /\ calc.type = "BottomUp"

(***************************************************************************)
(* Properties of the postbox: who may propagate an entry, how long its key *)
(* resolves, and who may extend its owners.                                *)
(***************************************************************************)
\* a is one of the owners of the item
IsOwner(item, a) ==
    /\ item.owners # None
    /\ \E i \in DOMAIN Unwrap(item.owners) : Unwrap(item.owners)[i] = a

\* the state in which the message under cid is held with no owners, as
\* State::insert_postbox stores a message given no owners, and its key
Unowned(st, cid) ==
    insert_postbox(remove_from_postbox(st, cid), None, st.postbox[cid].cross_msg)

\* C25: Propagate is owner-checked.  On an entry whose owners are Some, a
\* Propagate by a caller that is not in the list fails with illegal state
\* ("owner not match") whatever it is sent along, sends nothing (no fee, no
\* refund), commits nothing and leaves the state, the entry included, as it
\* was; a caller in the list is not stopped by the owner check.  The same
\* message held with owners None is propagated by every caller as an owner
\* propagates the owned entry: same outcome, same commit.
C25_PropagateOwnerChecked ==
    \A c \in DOMAIN postbox, a \in Addrs, v \in FundValues, e \in CurrEpochs :
        /\ postbox[c].owners # None
        /\ ~IsOwner(postbox[c], a) =>
              /\ propagate(State, a, c, v, e) = Rejected("owner not match", State)
              /\ exit_code(propagate(State, a, c, v, e).err) = "USR_ILLEGAL_STATE"
              /\ propagate(State, a, c, v, e).st.postbox[c] = postbox[c]
        /\ IsOwner(postbox[c], a) =>
              propagate(State, a, c, v, e).err
                  \notin {"owner not match", "cannot load from postbox"}
        /\ \A o \in Addrs :
              IsOwner(postbox[c], o) =>
                 /\ propagate(Unowned(State, c).st, a, Unowned(State, c).cid, v, e).err
                       = propagate(State, o, c, v, e).err
                 /\ propagate(Unowned(State, c).st, a, Unowned(State, c).cid, v, e).err
                       = "ok" =>
                       propagate(Unowned(State, c).st, a, Unowned(State, c).cid, v, e).st
                          = propagate(State, o, c, v, e).st

\* an entry waits in the postbox: a caller that is not an owner fails to
\* propagate it with more than the fee, its owner propagates it, and held with
\* no owners the caller that failed propagates it
C25_StrangerAndOwner ==
    \E c \in DOMAIN postbox, a \in Addrs, o \in Addrs, e \in CurrEpochs :
        /\ IsOwner(postbox[c], o)
        /\ ~IsOwner(postbox[c], a)
        /\ propagate(State, a, c, CROSS_MSG_FEE + 50, e).err = "owner not match"
        /\ propagate(State, o, c, CROSS_MSG_FEE + 50, e).err = "ok"
        /\ propagate(Unowned(State, c).st, a, Unowned(State, c).cid,
                     CROSS_MSG_FEE + 50, e).err = "ok"

\* the entry under key k is in the postbox of st, with the message it holds now
Resolves(st, k) ==
    /\ k \in DOMAIN st.postbox
    /\ load_from_postbox(st, k) # None
    /\ Unwrap(load_from_postbox(st, k)).cross_msg = postbox[k].cross_msg

\* C26 as stated: a key of the postbox keeps resolving to its message after
\* every call that is not a successful Propagate on that key -- Register, Fund,
\* Release, SendCross, SetMembership, ApplyMessage, WhiteListPropagator on
\* every key, that key included, a Propagate that fails, a Propagate on
\* another key -- and a successful Propagate on the key commits one message
\* and removes the entry, after which a load and a Propagate with the key fail.
C26_KeyResolvesUntilPropagated ==
    \A k \in DOMAIN postbox :
        /\ \A c \in OtherCalls : c.op # "Propagate" => Resolves(c.r.st, k)
        /\ \A msg \in AnyMsgs, current_balance \in Balances :
              Resolves(apply_msg(State, msg, current_balance).st, k)
        /\ \A a \in Addrs, c \in PostboxCids, v \in Values, e \in CurrEpochs :
              IF c = k /\ propagate(State, a, c, v, e).err = "ok"
              THEN /\ Cardinality(NewlyCommitted(propagate(State, a, c, v, e).st)) = 1
                   /\ load_from_postbox(propagate(State, a, c, v, e).st, k) = None
                   /\ \A b \in Addrs, w \in Values :
                         propagate(propagate(State, a, c, v, e).st, b, k, w, e).err
                             # "ok"
              ELSE Resolves(propagate(State, a, c, v, e).st, k)

\* an owner has extended the owners of an entry: the entry is under the key of
\* the item with both owners, the key it was stored under when it was enqueued
\* resolves no more and the owner cannot propagate with it, though no
\* Propagate has committed the message
C26_StaleKey ==
    \E k \in DOMAIN postbox, e \in CurrEpochs :
        /\ postbox[k].owners # None
        /\ Len(Unwrap(postbox[k].owners)) = 2
        /\ k = Cid(postbox[k])
        /\ LET enqueued == PostBoxItem(postbox[k].cross_msg,
                                       Some(<<Unwrap(postbox[k].owners)[1]>>))
           IN /\ Cid(enqueued) \notin DOMAIN postbox
              /\ load_from_postbox(State, Cid(enqueued)) = None
              /\ propagate(State, Unwrap(postbox[k].owners)[1], Cid(enqueued),
                           CROSS_MSG_FEE, e).err = "cannot load from postbox"
              /\ propagate(State, Unwrap(postbox[k].owners)[1], k,
                           CROSS_MSG_FEE, e).err = "ok"
        /\ \A id \in DOMAIN subnets : subnets[id].top_down_msgs = << >>
        /\ checkpoints = << >>

\* the addresses a WhiteListPropagator is asked to add
ToAdd == {<< >>, <<2>>, <<1, 2>>}

\* the item of an entry with to_add appended to its owners
Extended(item, to_add) == [item EXCEPT !.owners = Some(Unwrap(@) \o to_add)]

\* C27: only existing owners can extend the owners of a postbox item.  A
\* WhiteListPropagator on an unknown key, by a caller that is not in the
\* owners of the item, or on an item held with owners None, fails and leaves
\* the state, the postbox included, as it was.  A call by an owner succeeds
\* and changes the postbox only: the entry is replaced by one with the same
\* message whose owners are the previous owners followed by the added
\* addresses, and every added address propagates that entry as the caller
\* could propagate the entry before.
C27_OnlyOwnersExtend ==
    \A k \in PostboxCids, a \in Addrs, to_add \in ToAdd :
        /\ k \notin DOMAIN postbox =>
              /\ whitelist_propagator(State, a, k, to_add)
                    = Rejected("cannot load from postbox", State)
        /\ k \in DOMAIN postbox =>
              /\ postbox[k].owners # None
              /\ whitelist_propagator(Unowned(State, k).st, a, Unowned(State, k).cid,
                                      to_add)
                    = Rejected("postbox item cannot add owner for now",
                               Unowned(State, k).st)
              /\ ~IsOwner(postbox[k], a) =>
                    /\ whitelist_propagator(State, a, k, to_add)
                          = Rejected("not owner", State)
                    /\ exit_code("not owner") = "USR_ILLEGAL_STATE"
              /\ IsOwner(postbox[k], a) =>
                    /\ whitelist_propagator(State, a, k, to_add).err = "ok"
                    /\ whitelist_propagator(State, a, k, to_add).sent = << >>
                    /\ whitelist_propagator(State, a, k, to_add).st
                          = [State EXCEPT !.postbox =
                                (Cid(Extended(postbox[k], to_add))
                                    :> Extended(postbox[k], to_add))
                                @@ MapDelete(postbox, k)]
                    /\ Extended(postbox[k], to_add).cross_msg = postbox[k].cross_msg
                    /\ \A o \in Addrs :
                          IsOwner(postbox[k], o) =>
                             IsOwner(Extended(postbox[k], to_add), o)
                    /\ \A i \in DOMAIN to_add :
                          /\ IsOwner(Extended(postbox[k], to_add), to_add[i])
                          /\ \A v \in FundValues, e \in CurrEpochs :
                                propagate(whitelist_propagator(State, a, k, to_add).st,
                                          to_add[i],
                                          Cid(Extended(postbox[k], to_add)), v, e).err
                                   = propagate(State, a, k, v, e).err

\* an entry waits in the postbox: a caller that is not an owner can neither
\* extend its owners nor propagate it, a call on an unknown key fails, the
\* owner adds the caller, and the caller propagates the entry
C27_StrangerWhitelisted ==
    \E k \in DOMAIN postbox, o \in Addrs, e \in CurrEpochs :
        /\ IsOwner(postbox[k], o)
        /\ ~IsOwner(postbox[k], 2)
        /\ whitelist_propagator(State, 2, k, <<2>>).err = "not owner"
        /\ whitelist_propagator(State, o, UnknownCid, <<2>>).err
              = "cannot load from postbox"
        /\ propagate(State, 2, k, CROSS_MSG_FEE, e).err = "owner not match"
        /\ whitelist_propagator(State, o, k, <<2>>).err = "ok"
        /\ propagate(whitelist_propagator(State, o, k, <<2>>).st, 2,
                     Cid(Extended(postbox[k], <<2>>)), CROSS_MSG_FEE, e).err = "ok"

(***************************************************************************)
(* Properties of the registry of subnets: Register, the stake and the      *)
(* status of a subnet, and Kill.                                           *)
(***************************************************************************)
\* what a Register is sent along: nothing, less than the collateral, the
\* collateral, more
RegisterValues == {0, min_stake - 1, min_stake, min_stake + 1}

\* C28: Register by a subnet actor succeeds exactly when value_received is at
\* least min_stake and the subnet id of the caller is not registered.  It then
\* returns the id and adds to the subnet map, which it leaves otherwise as it
\* was, a subnet with stake value_received, status Active, circ_supply 0,
\* top-down nonce 0, an empty top-down queue and no previous checkpoint, and
\* adds one to total_subnets.  A Register for a registered subnet or with
\* less than min_stake fails with illegal argument and leaves the state, the
\* subnet map, the stake of the subnet and total_subnets included, as it was.
C28_RegisterCreatesActive ==
    \A a \in SubnetActors, v \in RegisterValues :
        /\ register(State, a, v).err = "ok"
              <=> (v >= min_stake /\ <<1, a>> \notin DOMAIN subnets)
        /\ register(State, a, v).err = "ok" =>
              /\ register(State, a, v).ret = Some(<<1, a>>)
              /\ register(State, a, v).sent = << >>
              /\ register(State, a, v).st
                    = [State EXCEPT
                          !.subnets =
                              (<<1, a>> :> [id |-> <<1, a>>, stake |-> v,
                                            status |-> "Active", circ_supply |-> 0,
                                            nonce |-> 0, top_down_msgs |-> << >>,
                                            prev_checkpoint |-> None]) @@ subnets,
                          !.total_subnets = total_subnets + 1]
              /\ DOMAIN register(State, a, v).st.subnets
                    = (DOMAIN subnets) \cup {<<1, a>>}
        /\ register(State, a, v).err # "ok" =>
              /\ exit_code(register(State, a, v).err) = "USR_ILLEGAL_ARGUMENT"
              /\ register(State, a, v) = Rejected(register(State, a, v).err, State)

\* a subnet is registered, funded and holds more than the collateral: it
\* cannot register again, and the other subnet registers with min_stake and
\* not with less
C28_SecondSubnet ==
    /\ DOMAIN subnets = {<<1, 1>>}
    /\ total_subnets = 1
    /\ subnets[<<1, 1>>].circ_supply > 0
    /\ subnets[<<1, 1>>].stake > min_stake
    /\ register(State, 1, min_stake).err = "subnet already registered"
    /\ register(State, 2, min_stake - 1).err = "Failed to register subnet"
    /\ register(State, 2, min_stake).err = "ok"
    /\ register(State, 2, min_stake).st.total_subnets = 2

\* C29 as stated: a registered subnet is Active exactly when its stake is at
\* least min_stake and Inactive exactly when it is below; a ReleaseStake that
\* leaves less than min_stake makes the subnet Inactive, one that leaves at
\* least min_stake leaves it Active, and an AddStake that brings the stake of
\* an Inactive subnet to min_stake or more makes it Active.
C29_ActiveIffStaked ==
    \A a \in SubnetActors :
        <<1, a>> \in DOMAIN subnets =>
           /\ subnets[<<1, a>>].status = "Active"
                 <=> subnets[<<1, a>>].stake >= min_stake
           /\ subnets[<<1, a>>].status = "Inactive"
                 <=> subnets[<<1, a>>].stake < min_stake
           /\ \A v \in ReleaseValues, b \in StakeBalances :
                 release_stake(State, a, v, b).err = "ok" =>
                    release_stake(State, a, v, b).st.subnets[<<1, a>>].status
                       = IF subnets[<<1, a>>].stake - v < min_stake
                         THEN "Inactive" ELSE "Active"
           /\ \A v \in AddValues :
                 /\ add_stake(State, a, v).err = "ok"
                 /\ subnets[<<1, a>>].stake + v >= min_stake
                 => add_stake(State, a, v).st.subnets[<<1, a>>].status = "Active"

\* a subnet has released part of its collateral and added it again: it holds
\* min_stake and is Inactive, and the AddStake that brought it there left it
\* Inactive
C29_InactiveWithStake ==
    \E a \in SubnetActors :
        /\ <<1, a>> \in DOMAIN subnets
        /\ subnets[<<1, a>>].stake = min_stake
        /\ subnets[<<1, a>>].status = "Inactive"
        /\ release_stake(State, a, 1, min_stake).err = "ok"
        /\ release_stake(State, a, 1, min_stake).st.subnets[<<1, a>>].status
              = "Inactive"
        /\ add_stake(release_stake(State, a, 1, min_stake).st, a, 1).err = "ok"
        /\ add_stake(release_stake(State, a, 1, min_stake).st, a, 1).st
              .subnets[<<1, a>>] = subnets[<<1, a>>]

\* what a Kill by subnet actor a leaves when it removes the subnet
Killed(a) ==
    [err |-> "ok",
     st |-> [State EXCEPT !.subnets = MapDelete(subnets, <<1, a>>),
                          !.total_subnets = total_subnets - 1],
     sent |-> <<[to |-> a, value |-> subnets[<<1, a>>].stake]>>,
     ret |-> None]

\* C30 as stated: Kill on a registered subnet with circ_supply > 0 fails with
\* illegal state, changes nothing and sends nothing; Kill on a subnet with
\* circ_supply 0 deletes the entry, takes one from total_subnets and sends
\* the stake to the caller.
C30_KillOnlyWithoutSupply ==
    \A a \in SubnetActors, b \in StakeBalances :
        <<1, a>> \in DOMAIN subnets =>
           IF subnets[<<1, a>>].circ_supply > 0
           THEN /\ kill(State, a, b) = Rejected(kill(State, a, b).err, State)
                /\ exit_code(kill(State, a, b).err) = "USR_ILLEGAL_STATE"
           ELSE kill(State, a, b) = Killed(a)

\* C30: a subnet with circ_supply > 0 is never removed: Kill on it fails with
\* illegal state, changes nothing and sends nothing, whatever the balance of
\* the gateway.  Kill on a subnet with circ_supply 0 deletes the entry, takes
\* one from total_subnets and sends exactly the stake to the caller when the
\* balance of the gateway is at least the stake; with a smaller balance it
\* fails with illegal state and changes nothing.  Kill by a caller whose
\* subnet is not registered fails with illegal argument.
C30_KillNeedsBalance ==
    \A a \in SubnetActors, b \in StakeBalances :
        /\ <<1, a>> \notin DOMAIN subnets =>
              /\ kill(State, a, b) = Rejected("subnet not registered", State)
              /\ exit_code("subnet not registered") = "USR_ILLEGAL_ARGUMENT"
        /\ <<1, a>> \in DOMAIN subnets =>
              /\ subnets[<<1, a>>].circ_supply >= 0
              /\ total_subnets >= 1
              /\ subnets[<<1, a>>].circ_supply > 0 =>
                    /\ kill(State, a, b) = Rejected(kill(State, a, b).err, State)
                    /\ exit_code(kill(State, a, b).err) = "USR_ILLEGAL_STATE"
              /\ subnets[<<1, a>>].circ_supply = 0 =>
                    IF b >= subnets[<<1, a>>].stake
                    THEN /\ kill(State, a, b) = Killed(a)
                         /\ <<1, a>> \notin DOMAIN kill(State, a, b).st.subnets
                    ELSE /\ kill(State, a, b)
                               = Rejected("the actor doesn't have enough balance to release",
                                          State)
                         /\ exit_code(kill(State, a, b).err) = "USR_ILLEGAL_STATE"

\* two subnets are registered, one holds funds and one does not: the first
\* cannot be killed, the second is killed when the gateway holds its stake and
\* not when it does not
C30_FundedAndUnfunded ==
    /\ DOMAIN subnets = {<<1, 1>>, <<1, 2>>}
    /\ total_subnets = 2
    /\ subnets[<<1, 1>>].circ_supply > 0
    /\ subnets[<<1, 2>>].circ_supply = 0
    /\ subnets[<<1, 2>>].stake = min_stake + 1
    /\ kill(State, 1, min_stake + MaxStakeGap).err
          = "cannot kill a subnet that still holds user funds in its circ. supply"
    /\ kill(State, 2, min_stake + MaxStakeGap).err = "ok"
    /\ kill(State, 2, min_stake + MaxStakeGap).st.total_subnets = 1
    /\ kill(State, 2, min_stake + MaxStakeGap).sent
          = <<[to |-> 2, value |-> min_stake + 1]>>
    /\ kill(State, 2, 1).err = "the actor doesn't have enough balance to release"

\* C31 as stated: Kill succeeds only on a registered subnet that is Inactive
\* and has circ_supply zero; Kill on an Active subnet is rejected.
C31_KillOnlyInactive ==
    \A a \in SubnetActors, b \in StakeBalances :
        kill(State, a, b).err = "ok" =>
           /\ <<1, a>> \in DOMAIN subnets
           /\ subnets[<<1, a>>].status = "Inactive"
           /\ subnets[<<1, a>>].circ_supply = 0

\* C31: Kill succeeds exactly on a registered subnet whose circ_supply is zero
\* and whose stake the balance of the gateway covers, whether the subnet is
\* Active or Inactive: the status of the subnet is not looked at.
C31_KillWhateverStatus ==
    \A a \in SubnetActors, b \in StakeBalances :
        /\ kill(State, a, b).err = "ok"
              <=> /\ <<1, a>> \in DOMAIN subnets
                  /\ subnets[<<1, a>>].circ_supply = 0
                  /\ b >= subnets[<<1, a>>].stake
        /\ <<1, a>> \in DOMAIN subnets =>
              \A status \in {"Active", "Inactive"} :
                 kill([State EXCEPT !.subnets[<<1, a>>].status = status], a, b).err
                    = kill(State, a, b).err

\* a subnet that has just registered is Active and is killed, and a subnet
\* that released part of its collateral is Inactive and is killed as well
C31_ActiveKilled ==
    /\ DOMAIN subnets = {<<1, 1>>, <<1, 2>>}
    /\ subnets[<<1, 1>>] = NewSubnet(<<1, 1>>, min_stake)
    /\ subnets[<<1, 1>>].status = "Active"
    /\ kill(State, 1, min_stake + MaxStakeGap).err = "ok"
    /\ <<1, 1>> \notin DOMAIN kill(State, 1, min_stake + MaxStakeGap).st.subnets
    /\ subnets[<<1, 2>>].status = "Inactive"
    /\ subnets[<<1, 2>>].stake < min_stake
    /\ kill(State, 2, min_stake + MaxStakeGap).err = "ok"

(***************************************************************************)
(* Properties of the commits of checkpoints.                               *)
(***************************************************************************)
\* the subnet of a subnet actor has committed a checkpoint
HasPrev(subnet_addr) ==
    /\ new_from_parent(network_name, subnet_addr) \in DOMAIN subnets
    /\ subnets[new_from_parent(network_name, subnet_addr)].prev_checkpoint # None

\* the last checkpoint the subnet of a subnet actor committed
Prev(subnet_addr) ==
    Unwrap(subnets[new_from_parent(network_name, subnet_addr)].prev_checkpoint)

\* C32 as stated: a subnet that has committed a checkpoint P commits next
\* only a checkpoint of an epoch greater than the one of P; a commit of an
\* epoch lower than or equal to the one of P is rejected and changes nothing
C32_EpochsStrictlyIncrease ==
    \A subnet_addr \in SubnetActors, source \in CommitSources,
       epoch \in CommitEpochs, prev_check \in PrevChecks(State),
       cross_msgs \in CommitBatches, curr_epoch \in WindowEpochs :
        LET increasing(r, P) ==
                /\ r.err = "ok" => epoch > P.epoch
                /\ epoch <= P.epoch => r.err # "ok" /\ r.st = State
        IN HasPrev(subnet_addr) =>
               increasing(commit_child_check(
                              State, subnet_addr,
                              Checkpoint(source, epoch, prev_check, cross_msgs),
                              curr_epoch),
                          Prev(subnet_addr))

\* C32, amended: a subnet that has committed a checkpoint P commits next only
\* a checkpoint of an epoch greater than or equal to the one of P; a commit
\* is rejected as belonging to the past exactly when its epoch is lower,
\* never when it is the epoch of P; a rejected commit changes nothing
C32_EpochsNeverDecrease ==
    \A subnet_addr \in SubnetActors, source \in CommitSources,
       epoch \in CommitEpochs, prev_check \in PrevChecks(State),
       cross_msgs \in CommitBatches, curr_epoch \in WindowEpochs :
        LET ordered(r, P) ==
                /\ r.err = "ok" => epoch >= P.epoch
                /\ r.err = "checkpoint being committed belongs to the past"
                       => epoch < P.epoch
                /\ epoch < P.epoch => r.err # "ok"
                /\ r.err # "ok" => r.st = State /\ r.sent = << >>
        IN HasPrev(subnet_addr) =>
               ordered(commit_child_check(
                           State, subnet_addr,
                           Checkpoint(source, epoch, prev_check, cross_msgs),
                           curr_epoch),
                       Prev(subnet_addr))

\* a subnet has committed a second checkpoint of the epoch of its first, and
\* a checkpoint of a lower epoch is at hand
C32_SameEpochTwice ==
    /\ HasPrev(1)
    /\ Prev(1).prev_check \in CommittedCids(State)
    /\ Prev(1).prev_check[2].epoch = Prev(1).epoch
    /\ Prev(1).prev_check[2].source = Prev(1).source
    /\ \E epoch \in CommitEpochs : epoch < Prev(1).epoch

\* C33 as stated: an accepted commit that links to a checkpoint links to the
\* last one its subnet committed, the first commit of a subnet included; a
\* subnet that has committed P commits next only a checkpoint that links to
\* P; any other commit is rejected with an illegal argument and changes
\* nothing; an accepted commit becomes the last checkpoint of its subnet
C33_LinksToLastCommitted ==
    \A subnet_addr \in SubnetActors, source \in CommitSources,
       epoch \in CommitEpochs, prev_check \in PrevChecks(State),
       cross_msgs \in CommitBatches, curr_epoch \in WindowEpochs :
        LET linked(r) ==
                /\ r.err = "ok" /\ prev_check # TCid_default
                       => /\ HasPrev(subnet_addr)
                          /\ prev_check = Checkpoint_cid(Prev(subnet_addr))
                /\ r.err = "ok" /\ HasPrev(subnet_addr)
                       => prev_check = Checkpoint_cid(Prev(subnet_addr))
                /\ r.err # "ok" => r.st = State
                /\ r.err = "ok"
                       => r.st.subnets[new_from_parent(network_name, subnet_addr)]
                              .prev_checkpoint
                          = Some(Checkpoint(source, epoch, prev_check, cross_msgs))
        IN linked(commit_child_check(
                      State, subnet_addr,
                      Checkpoint(source, epoch, prev_check, cross_msgs),
                      curr_epoch))

\* C33, amended: a subnet that has committed P commits next only a checkpoint
\* that links to P; one that does not is rejected and changes nothing, with
\* an illegal argument when the rejection is for the link or the epoch; the
\* first commit of a subnet is never rejected for its link; an accepted
\* commit becomes the last checkpoint of its subnet
C33_LinksToLastAfterFirst ==
    \A subnet_addr \in SubnetActors, source \in CommitSources,
       epoch \in CommitEpochs, prev_check \in PrevChecks(State),
       cross_msgs \in CommitBatches, curr_epoch \in WindowEpochs :
        LET unlinked == "previous checkpoint not consistente with previous one"
            past == "checkpoint being committed belongs to the past"
            chained(r) ==
                /\ r.err = "ok" /\ HasPrev(subnet_addr)
                       => prev_check = Checkpoint_cid(Prev(subnet_addr))
                /\ r.err = unlinked
                       => /\ HasPrev(subnet_addr)
                          /\ prev_check # Checkpoint_cid(Prev(subnet_addr))
                          /\ exit_code(r.err) = "USR_ILLEGAL_ARGUMENT"
                /\ (/\ HasPrev(subnet_addr)
                    /\ prev_check # Checkpoint_cid(Prev(subnet_addr))
                    /\ subnets[new_from_parent(network_name, subnet_addr)].status
                           = "Active"
                    /\ subnet_addr = subnet_actor(source)
                    /\ curr_epoch >= 0)
                       => r.err \in {unlinked, past}
                /\ r.err # "ok" => r.st = State /\ r.sent = << >>
                /\ r.err = "ok"
                       => r.st.subnets[new_from_parent(network_name, subnet_addr)]
                              .prev_checkpoint
                          = Some(Checkpoint(source, epoch, prev_check, cross_msgs))
        IN chained(commit_child_check(
                       State, subnet_addr,
                       Checkpoint(source, epoch, prev_check, cross_msgs),
                       curr_epoch))

\* the only checkpoint committed so far is the first of its subnet, and it
\* links to a checkpoint the gateway never saw
C33_FirstCommitDangling ==
    /\ HasPrev(1)
    /\ Prev(1).prev_check = Checkpoint_cid(UnknownCheck)
    /\ CommittedCids(State) = {Checkpoint_cid(Prev(1))}

\* the window checkpoints hold the checkpoint for the source
CommittedFor(ch, source) ==
    \E p \in ChildSlots(State) :
        p[2] = source /\ children[p[1]][p[2]][p[3]] = Checkpoint_cid(ch)

\* no list of child checkpoints holds a checkpoint twice
NoChildTwice ==
    \A e \in DOMAIN children : \A src \in DOMAIN children[e] :
        \A i, j \in DOMAIN children[e][src] :
            children[e][src][i] = children[e][src][j] => i = j

\* C34 as stated: the commit of a checkpoint that was already committed for
\* its source fails with an illegal argument, sends no fee and leaves the
\* whole state as it was; no list of child checkpoints holds a checkpoint
\* twice
C34_CommittedOnce ==
    /\ NoChildTwice
    /\ \A subnet_addr \in SubnetActors, source \in CommitSources,
          epoch \in CommitEpochs, prev_check \in PrevChecks(State),
          cross_msgs \in CommitBatches, curr_epoch \in WindowEpochs \cap Nat :
           LET refused(r) ==
                   /\ exit_code(r.err) = "USR_ILLEGAL_ARGUMENT"
                   /\ r.st = State
                   /\ r.sent = << >>
           IN CommittedFor(Checkpoint(source, epoch, prev_check, cross_msgs),
                           source)
                  => refused(commit_child_check(
                                 State, subnet_addr,
                                 Checkpoint(source, epoch, prev_check, cross_msgs),
                                 curr_epoch))

\* C34, amended: the commit of a checkpoint that the window checkpoint of the
\* current epoch already holds for its source, or that is the last
\* checkpoint of the subnet, fails, sends no fee and leaves the whole state
\* as it was; it fails with an illegal argument when the subnet is active and
\* covers the value of the batch; no list of child checkpoints holds a
\* checkpoint twice
C34_CommittedOncePerWindow ==
    /\ NoChildTwice
    /\ \A subnet_addr \in SubnetActors, source \in CommitSources,
          epoch \in CommitEpochs, prev_check \in PrevChecks(State),
          cross_msgs \in CommitBatches, curr_epoch \in WindowEpochs \cap Nat :
           LET shid == new_from_parent(network_name, subnet_addr)
               held(ch) ==
                   \/ \E i \in DOMAIN ChildChecks(
                                  State, checkpoint_epoch(curr_epoch, check_period),
                                  source) :
                          ChildChecks(State,
                                      checkpoint_epoch(curr_epoch, check_period),
                                      source)[i] = Checkpoint_cid(ch)
                   \/ HasPrev(subnet_addr) /\ Prev(subnet_addr) = ch
               covered ==
                   /\ shid \in DOMAIN subnets
                   /\ subnets[shid].status = "Active"
                   /\ cross_msgs # None
                          => subnets[shid].circ_supply >= Unwrap(cross_msgs).value
               refused(r) ==
                   /\ r.err # "ok"
                   /\ r.st = State
                   /\ r.sent = << >>
                   /\ covered \/ shid \notin DOMAIN subnets
                          => exit_code(r.err) = "USR_ILLEGAL_ARGUMENT"
           IN held(Checkpoint(source, epoch, prev_check, cross_msgs))
                  => refused(commit_child_check(
                                 State, subnet_addr,
                                 Checkpoint(source, epoch, prev_check, cross_msgs),
                                 curr_epoch))

\* a subnet that was killed and registered again has no last checkpoint, the
\* window checkpoint holds a checkpoint it committed before, and the commit
\* of this checkpoint in the same window is refused for being held
C34_HeldAndCommittedAgain ==
    /\ <<1, 1>> \in DOMAIN subnets
    /\ ~HasPrev(1)
    /\ \E ch \in { Checkpoint(<<1, 1>>, epoch, TCid_default, None) :
                     epoch \in CommitEpochs } :
           /\ ChildChecks(State, 10, <<1, 1>>) = <<Checkpoint_cid(ch)>>
           /\ commit_child_check(State, 1, ch, 10).err
                  = "error adding child checkpoint"
           /\ commit_child_check(State, 1, ch, 20).err = "ok"

\* the child checkpoints of the window checkpoints of st are the ones held
\* now, with the checkpoint ch added to the ones of its source at epoch w
AddedAt(st, w, ch) ==
    \A e \in DOMAIN st.children \cup DOMAIN children \cup {w} :
        \A src \in CommitSources :
            ChildChecks(st, e, src) =
                IF e = w /\ src = ch.source
                THEN Append(ChildChecks(State, e, src), Checkpoint_cid(ch))
                ELSE ChildChecks(State, e, src)

\* the cross-messages of the window checkpoints of st are the ones held now,
\* with one message added at epoch w
StoredAt(st, w) ==
    /\ w \in DOMAIN st.checkpoints
    /\ Len(st.checkpoints[w]) =
           1 + (IF w \in DOMAIN checkpoints THEN Len(checkpoints[w]) ELSE 0)
    /\ \A e \in DOMAIN checkpoints \ {w} :
           e \in DOMAIN st.checkpoints /\ st.checkpoints[e] = checkpoints[e]
    /\ DOMAIN st.checkpoints = DOMAIN checkpoints \cup {w}

RECURSIVE StoredIn(_, _)
StoredIn(chs, es) ==
    IF es = {} THEN 0
    ELSE LET e == CHOOSE x \in es : TRUE
         IN Len(chs[e]) + StoredIn(chs, es \ {e})

\* the window checkpoints of st hold what they hold now and one message
\* more, at the end of the checkpoint of one epoch
OneStored(st) ==
    \E w \in DOMAIN st.checkpoints :
        /\ DOMAIN st.checkpoints = DOMAIN checkpoints \cup {w}
        /\ SubSeq(st.checkpoints[w], 1, Len(st.checkpoints[w]) - 1)
               = (IF w \in DOMAIN checkpoints THEN checkpoints[w] ELSE << >>)
        /\ Len(st.checkpoints[w]) >= 1
        /\ \A e \in DOMAIN checkpoints \ {w} : st.checkpoints[e] = checkpoints[e]

\* a call committed one message bottom-up
CountedUp(r) == OneStored(r.st) /\ r.st.nonce = nonce + 1

\* a call committed no message bottom-up
NotCounted(r) == r.st.checkpoints = checkpoints /\ r.st.nonce = nonce

\* a message that this gateway passes up: bottom-up and below the lowest
\* common ancestor of its ends
GoesUp(m) ==
    /\ apply_type(m, network_name) = "BottomUp"
    /\ m.to.subnet_id # network_name
    /\ ~AtCommonParent(m)

\* the message a successful Release stored
Released(r) ==
    { r.st.checkpoints[e][Len(r.st.checkpoints[e])] :
        e \in { x \in DOMAIN r.st.checkpoints :
                   \/ x \notin DOMAIN checkpoints
                   \/ Len(r.st.checkpoints[x]) > Len(checkpoints[x]) } }

\* C36: a successful Release, and a successful SendCross or Propagate of a
\* message that goes up, adds exactly one message to one window checkpoint
\* and one to the nonce of the bottom-up messages; the message of a Release
\* carries the nonce the state had before the call, so the nonce counts the
\* messages stored; Fund, ApplyMessage, and SendCross and Propagate of a
\* message that goes down, leave the nonce and the checkpoints as they are
C36_OutboundNonce ==
    /\ nonce = StoredIn(checkpoints, DOMAIN checkpoints)
    /\ \A a \in Addrs, v \in FundValues, e \in CurrEpochs :
          LET released(r) ==
                  r.err = "ok" =>
                      /\ CountedUp(r)
                      /\ \A m \in Released(r) : m.nonce = nonce
          IN released(release(State, a, TRUE, v, e))
    /\ \A d \in SubnetIDs, v \in FundValues, e \in CurrEpochs :
          LET sent(r, m) ==
                  r.err = "ok" => IF GoesUp(m) THEN CountedUp(r) ELSE NotCounted(r)
          IN sent(send_cross(State, 1, FALSE, d, 2, v, v, e),
                  StorableMsg(IPCAddress(network_name, 1), IPCAddress(d, 2),
                              v - CROSS_MSG_FEE, 0))
    /\ \A c \in DOMAIN postbox, a \in Addrs, v \in FundValues, e \in CurrEpochs :
          LET propagated(r, m) ==
                  r.err = "ok" => IF GoesUp(m) THEN CountedUp(r) ELSE NotCounted(r)
          IN propagated(propagate(State, a, c, v, e), postbox[c].cross_msg)
    /\ \A d \in FundDests, v \in FundValues :
          LET funded(r) == r.err = "ok" => NotCounted(r)
          IN funded(fund(State, 1, TRUE, d, v))
    /\ \A m \in ApplyMsgInputs, b \in {0, CROSS_MSG_FEE + 50} :
          LET applied(r) == r.err = "ok" => NotCounted(r)
          IN applied(apply_msg(State, m, b))

\* the window checkpoint holds two messages, the second put there by a
\* Release, and a third call of Release would carry the nonce 2
C36_SecondRelease ==
    /\ nonce = 2
    /\ \E e \in DOMAIN checkpoints :
           /\ Len(checkpoints[e]) = 2
           /\ checkpoints[e][2].from.raw_address = BURNT_FUNDS_ACTOR_ADDR
           /\ checkpoints[e][2].nonce = 1

(***************************************************************************)
(* Properties of the records of the votes.                                 *)
(***************************************************************************)
\* the record of a queued epoch can be executed: it is stored, has a most
\* voted hash that maps to a stored checkpoint, and the weight of this hash
\* is beyond the threshold of the validators of now
Executable(epoch) ==
    /\ epoch \in DOMAIN cron_submissions
    /\ cron_submissions[epoch].most_voted_hash # None
    /\ load_most_submitted_checkpoint(cron_submissions[epoch]) # None
    /\ Unwrap(cron_submissions[epoch].most_voted_hash)
           \in DOMAIN cron_submissions[epoch].submission_counts
    /\ derive_execution_status(
           cron_submissions[epoch], total_weight(validators),
           cron_submissions[epoch].submission_counts[
               Unwrap(cron_submissions[epoch].most_voted_hash)])
           = "ConsensusReached"

\* C37 as stated: every epoch in the queue has a stored record with a most
\* voted hash that maps to a stored checkpoint and satisfies the consensus
\* condition, so the trigger never panics
C37_QueuedIsExecutable ==
    /\ executable_epoch_queue # None
           => \A epoch \in Unwrap(executable_epoch_queue) : Executable(epoch)
    /\ execute_next_cron_epoch(State).err # "panic"

\* an epoch is queued without a record, it is the next to execute, and the
\* trigger panics on it
C37_QueuedWithoutRecord ==
    /\ executable_epoch_queue # None
    /\ \E epoch \in Unwrap(executable_epoch_queue) :
           /\ epoch \notin DOMAIN cron_submissions
           /\ epoch = last_cron_executed_epoch + cron_period
    /\ execute_next_cron_epoch(State).err = "panic"

\* the record the votes on an epoch are added to
RecordOf(epoch) ==
    IF epoch \in DOMAIN cron_submissions THEN cron_submissions[epoch]
    ELSE NewCronSubmission

\* derive_execution_status, on S submitted of T with M for the leader, comes
\* to its subtractions
Subtracts(S, T, M) ==
    /\ S > (T * RATIO_NUMERATOR) \div RATIO_DENOMINATOR
    /\ M <= (T * RATIO_NUMERATOR) \div RATIO_DENOMINATOR

\* C38 as stated: in every record the submitted weight is within the weight
\* of the validators of now and the weight of the leader within the
\* submitted weight, and no vote brings derive_execution_status to a
\* subtraction with a negative result
C38_TallyWithinValidators ==
    /\ \A epoch \in DOMAIN cron_submissions :
          /\ cron_submissions[epoch].total_submissions <= total_weight(validators)
          /\ \A h \in DOMAIN cron_submissions[epoch].submission_counts :
                 cron_submissions[epoch].submission_counts[h]
                     <= cron_submissions[epoch].total_submissions
    /\ \A caller \in DOMAIN validators, epoch \in RoundEpochs,
          msgs \in RoundMsgLists :
           LET positive(r) ==
                   (r.err = "ok"
                    /\ Subtracts(r.sub.total_submissions,
                                 total_weight(validators), r.most))
                       => /\ total_weight(validators) - r.sub.total_submissions >= 0
                          /\ (total_weight(validators) * RATIO_NUMERATOR)
                                 \div RATIO_DENOMINATOR - r.most >= 0
           IN positive(submit(RecordOf(epoch), caller, validators[caller],
                              CronCheckpoint(epoch, msgs)))

\* the membership shrank below the weight submitted on an epoch, and the vote
\* of a validator brings derive_execution_status to subtract the submitted
\* weight from a smaller total
C38_TallyBeyondValidators ==
    \E caller \in DOMAIN validators, epoch \in RoundEpochs, msgs \in RoundMsgLists :
        /\ validate_submitter(State, epoch, caller).err = "ok"
        /\ submit(RecordOf(epoch), caller, validators[caller],
                  CronCheckpoint(epoch, msgs)).err = "ok"
        /\ Subtracts(submit(RecordOf(epoch), caller, validators[caller],
                            CronCheckpoint(epoch, msgs)).sub.total_submissions,
                     total_weight(validators),
                     submit(RecordOf(epoch), caller, validators[caller],
                            CronCheckpoint(epoch, msgs)).most)
        /\ total_weight(validators)
               < submit(RecordOf(epoch), caller, validators[caller],
                        CronCheckpoint(epoch, msgs)).sub.total_submissions
        /\ submit_cron(State, caller, CronCheckpoint(epoch, msgs)).err
               = (IF overflow_checks THEN "panic" ELSE "ok")

\* C39: no record of votes is kept for an epoch that is not after the last
\* executed one, and a vote on such an epoch fails and leaves the state as
\* it was
C39_NoStaleRecord ==
    /\ \A epoch \in DOMAIN cron_submissions : epoch > last_cron_executed_epoch
    /\ \A caller \in Addrs, epoch \in Epochs, msgs \in TopDownMsgLists :
           LET refused(r) == r.err # "ok" /\ r.st = State /\ r.sent = << >>
           IN epoch <= last_cron_executed_epoch
                  => refused(submit_cron(State, caller, CronCheckpoint(epoch, msgs)))

\* two epochs were executed, the second after votes that did not agree at
\* first, a later epoch has a record of votes, and the vote of a validator
\* on the last executed epoch is refused as already executed
C39_ExecutedAndVotedLater ==
    /\ last_cron_executed_epoch = genesis_epoch + 2 * cron_period
    /\ DOMAIN cron_submissions # {}
    /\ executable_epoch_queue = None
    /\ \E caller \in DOMAIN validators :
           submit_cron(State, caller,
                       CronCheckpoint(last_cron_executed_epoch, << >>)).err
               = "epoch already executed"

\* ---------------------------------------------------------------------------
\* Properties of the number of entries of the postbox
\* ---------------------------------------------------------------------------

\* the call stored a message in the postbox
Posted(r) == r.err = "ok" /\ IsSome(r.ret)

\* the call added exactly one entry to the postbox
OneMore(r) == Cardinality(DOMAIN r.st.postbox) = Cardinality(DOMAIN postbox) + 1

\* the call took exactly one entry from the postbox
OneLess(r) == Cardinality(DOMAIN r.st.postbox) = Cardinality(DOMAIN postbox) - 1

\* C40: no cross-message is lost in the postbox.  Every ApplyMessage that
\* routes a message to the postbox adds exactly one new entry, also when a
\* message of the same content is in the postbox already, and every successful
\* Propagate takes exactly one entry, so that the number of entries is the
\* number of messages enqueued minus the number of messages propagated.
C40_EachPostedIsCounted ==
    /\ \A msg \in ApplyMsgInputs, current_balance \in Balances :
          LET counted(r) == Posted(r) => OneMore(r)
          IN counted(apply_msg(State, msg, current_balance))
    /\ \A caller \in Addrs, postbox_cid \in PostboxCids, value_received \in Values,
          curr_epoch \in CurrEpochs :
          LET counted(r) == r.err = "ok" => OneLess(r)
          IN counted(propagate(State, caller, postbox_cid, value_received,
                               curr_epoch))

\* a message is in the postbox, and the ApplyMessage of a message of the same
\* content and the same sender is accepted, returns the key of the entry held
\* and leaves the postbox with the entries it had
C40_SameContentPostedTwice ==
    \E msg \in ApplyMsgInputs, current_balance \in Balances :
        LET again(r) == /\ Posted(r)
                        /\ Unwrap(r.ret) \in DOMAIN postbox
                        /\ postbox[Unwrap(r.ret)].cross_msg = msg
                        /\ r.st.postbox = postbox
        IN again(apply_msg(State, msg, current_balance))

====
